---------------------------- MODULE Spec2Model ----------------------------
(***************************************************************************)
(* PySDDR, src/utils.py: the formula compiler parse_formulas and the       *)
(* functions it is built from (_checkups, _split_formula, df2lambda,       *)
(* _get_P_from_design_matrix, _get_info_from_design_matrix,                *)
(* _orthogonalize_spline_wrt_non_splines), the Spline object, and          *)
(* make_matrix_positive_semi_definite step by step.                        *)
(*                                                                         *)
(* A Python string is a sequence of one-character strings, so that         *)
(* replace, split and join are computed character by character.  A real    *)
(* number is a fraction <<n, d>> with d > 0 in lowest terms.               *)
(***************************************************************************)
EXTENDS Integers, Sequences, FiniteSets, TLC

VARIABLES
    warnings_filter,    \* the process-wide warnings filter: "default" or "error"
    sf_pc,              \* a call of _split_formula: "idle", "call", "returned"
    sf_formula,         \* its argument formula
    sf_net_names_list,  \* its argument net_names_list
    sf_result,          \* what it returned
    df_pc,              \* a call of df2lambda: "idle", "call", "returned", "raised", "checked"
    df_args,            \* its arguments
    df_result,          \* what the call gave back
    df_back,            \* what df2lambda(dm, P, None, lam = the returned lambda) gave back
    pc,                 \* where a call of parse_formulas stands
    exc,                \* the exception that ended the call
    formulas,           \* its argument formulas: parameter name -> formula
    deep_models_dict,   \* its argument deep_models_dict: <<name, entry>> in key order
    degrees_of_freedom, \* its argument degrees_of_freedom: parameter name -> df or list
    numerics,           \* what the numerical libraries compute on this data
    new_formulas,       \* formulas after _checkups: <<param, formula>> in key order
    param_index,        \* the position of the loop of line 473 in new_formulas
    dfs,                \* locals of the loop body
    structured_part,
    unstructured_terms,
    structured_matrix,
    spline_info,
    non_spline_info,
    P,
    meta_datadict,      \* the three dictionaries that are returned
    parsed_formula_contents,
    dm_info_dict,
    unit,               \* the function that is exercised on its own, or "none"
    sp_s,               \* a Spline object: its attribute s, the fitted basis
    sp_penalty_matrices, \* its attribute penalty_matrices
    sp_log,             \* the calls made on the object and what they gave
    psd_pc,             \* a call of make_matrix_positive_semi_definite
    psd_A,              \* its argument A, as the eigenvalues np.linalg.eigh(A)[0]
    psd_result,         \* what it returned
    psd_exc,            \* the exception that ended it
    psd_steps,          \* how often lines 142-146 were entered
    orth_formula,       \* the formula of the matrix that is orthogonalized
    orth_matrix,        \* the columns of structured_matrix, written in place
    orth_info,          \* <<spline_info, non_spline_info>>
    orth_local          \* per smooth term: where its loop body stands, X, constraints

split_vars == <<sf_pc, sf_formula, sf_net_names_list, sf_result>>
df_vars == <<df_pc, df_args, df_result, df_back>>
inputs == <<formulas, deep_models_dict, degrees_of_freedom, numerics>>
locals == <<dfs, structured_part, unstructured_terms, structured_matrix,
            spline_info, non_spline_info, P>>
outputs == <<meta_datadict, parsed_formula_contents, dm_info_dict>>
parse_vars == <<pc, exc, inputs, new_formulas, param_index, locals, outputs>>

spline_vars == <<sp_s, sp_penalty_matrices, sp_log>>
psd_vars == <<psd_pc, psd_A, psd_result, psd_exc, psd_steps>>
orth_vars == <<orth_formula, orth_matrix, orth_info, orth_local>>
unit_vars == <<unit, spline_vars, psd_vars, orth_vars>>

vars == <<warnings_filter, unit_vars, split_vars, df_vars, parse_vars, unit_vars>>

(***************************************************************************)
(* Python strings                                                          *)
(***************************************************************************)

\* str.replace(c, ''): the string without the character c
Remove(s, c) == SelectSeq(s, LAMBDA ch : ch # c)

RECURSIVE SplitFrom(_, _, _, _, _)
SplitFrom(s, c, i, cur, acc) ==
    IF i > Len(s) THEN Append(acc, cur)
    ELSE IF s[i] = c THEN SplitFrom(s, c, i + 1, <<>>, Append(acc, cur))
    ELSE SplitFrom(s, c, i + 1, Append(cur, s[i]), acc)

\* str.split(c): the pieces between the occurrences of c, at least one piece
Split(s, c) == SplitFrom(s, c, 1, <<>>, <<>>)

RECURSIVE Join(_, _)
\* c.join(parts)
Join(parts, c) ==
    IF Len(parts) = 0 THEN <<>>
    ELSE IF Len(parts) = 1 THEN parts[1]
    ELSE parts[1] \o <<c>> \o Join(Tail(parts), c)

\* x in list
InList(x, list) == \E i \in 1..Len(list) : list[i] = x

(***************************************************************************)
(* _split_formula (src/utils.py 47-82)                                     *)
(***************************************************************************)

\* a plausible slip: the whole term, not the text before '(', is looked up
is_unstructured_whole_term(part, net_names_list) == InList(part, net_names_list)

\* lines 73-75: term = part.split('(')[0]; term in net_names_list
is_unstructured(part, net_names_list) ==
    InList(Split(part, "(")[1], net_names_list)

RECURSIVE split_loop(_, _, _, _, _)
\* lines 72-79: the loop over formula_parts, appending to one of the lists
split_loop(formula_parts, i, net_names_list, structured, unstructured) ==
    IF i > Len(formula_parts)
    THEN [structured_terms |-> structured,
          unstructured_terms |-> unstructured]
    ELSE IF is_unstructured(formula_parts[i], net_names_list)
    THEN split_loop(formula_parts, i + 1, net_names_list, structured,
                    Append(unstructured, formula_parts[i]))
    ELSE split_loop(formula_parts, i + 1, net_names_list,
                    Append(structured, formula_parts[i]), unstructured)

\* lines 68-70: spaces and tildes removed, split at '+'
formula_parts_of(formula) == Split(Remove(Remove(formula, " "), "~"), "+")

\* lines 65-82
_split_formula(formula, net_names_list) ==
    LET r == split_loop(formula_parts_of(formula), 1, net_names_list, <<>>, <<>>)
    IN  [structured_part |-> Join(r.structured_terms, "+"),
         unstructured_terms |-> r.unstructured_terms]

(***************************************************************************)
(* Real numbers: fractions <<n, d>>, d > 0, in lowest terms                *)
(***************************************************************************)

None == <<>>

NoExc == "none"

Abs(x) == IF x < 0 THEN -x ELSE x

RECURSIVE GCD(_, _)
GCD(a, b) == IF b = 0 THEN a ELSE GCD(b, a % b)

Frac(n, d) ==
    LET g == GCD(Abs(n), Abs(d))
        s == IF d < 0 THEN -1 ELSE 1
    IN  <<(s * n) \div g, (s * d) \div g>>

Num(n) == <<n, 1>>
Zero == Num(0)
One == Num(1)

RAdd(a, b) == Frac(a[1] * b[2] + b[1] * a[2], a[2] * b[2])
RSub(a, b) == Frac(a[1] * b[2] - b[1] * a[2], a[2] * b[2])
RMul(a, b) == Frac(a[1] * b[1], a[2] * b[2])
RDiv(a, b) == Frac(a[1] * b[2], a[2] * b[1])
RLt(a, b) == a[1] * b[2] < b[1] * a[2]
RLe(a, b) == a[1] * b[2] <= b[1] * a[2]
RAbs(a) == <<Abs(a[1]), a[2]>>

\* 1 / sqrt(machine_epsilon), machine_epsilon = 2 * np.finfo(float).eps (line 160)
inv_sqrt_machine_epsilon == 47453132

\* 1 / (sqrt(machine_epsilon) - 1e-10): min_eigen < -1e-10 (lines 138-141) reads
\* "smallest eigenvalue < sqrt(machine_epsilon) - 1e-10"
inv_psd_threshold == 47679386

\* x > np.sqrt(machine_epsilon), computed without overflow
ExceedsSqrtEps(x) == x[1] > 0 /\ (x[2] \div x[1]) <= inv_sqrt_machine_epsilon

(***************************************************************************)
(* make_matrix_positive_semi_definite, dfFun, df2lambda (134-221)          *)
(*                                                                         *)
(* The term's design matrix dm enters df2lambda through what numpy and     *)
(* scipy compute from it: rank = matrix_rank(dm), min_eig = the smallest   *)
(* eigenvalue of A = dm.T @ dm + P * 1e-15, and d = the singular values of *)
(* Rm.T @ P @ Rm.  lam ranges over the fractions with denominator LamDen.  *)
(***************************************************************************)

\* the denominator of the grid of lambdas the root search moves on
LamDen == 2

\* what a call gives back: a pair (df, lam), or the exception that ended it;
\* filter tells whether warnings.simplefilter('error') was executed
Returned(df, lam) == [raised |-> NoExc, df |-> df, lam |-> lam, filter |-> FALSE]
Raised(e) == [raised |-> e, df |-> None, lam |-> None, filter |-> FALSE]
\* lines 170-171, 211-212, 218-219: under the 'error' filter installed one
\* line before, warnings.warn raises the UserWarning
Warned == [raised |-> "UserWarning", df |-> None, lam |-> None, filter |-> TRUE]

\* lines 138-148, seen on the smallest eigenvalue of A: a matrix that passes
\* the check is returned; otherwise it is shrunk and line 146 calls the
\* function again with one argument of its two
make_matrix_positive_semi_definite(min_eig, machine_epsilon) ==
    IF min_eig[1] <= 0 \/ (min_eig[2] \div min_eig[1]) >= inv_psd_threshold
    THEN [raised |-> "TypeError", min_eig |-> None]
    ELSE [raised |-> NoExc, min_eig |-> min_eig]

RECURSIVE SumHat(_, _, _)
\* sum(1 / (1 + lam * d))
SumHat(lam, d, i) ==
    IF i > Len(d) THEN Zero
    ELSE RAdd(RDiv(One, RAdd(One, RMul(lam, Num(d[i])))), SumHat(lam, d, i + 1))

\* lines 150-155; with hat1 false line 154 applies ^ (bitwise xor) to a float array
dfFun(lam, d, hat1) ==
    IF hat1 THEN [raised |-> NoExc, res |-> SumHat(lam, d, 1)]
    ELSE [raised |-> "TypeError", res |-> None]

RECURSIVE first_nonpositive(_, _, _, _)
\* the first grid point p / LamDen, p >= i, where dfFun(l) - df <= 0
first_nonpositive(d, df, i, lam_max) ==
    IF i >= lam_max * LamDen THEN lam_max * LamDen
    ELSE IF RLe(SumHat(Frac(i, LamDen), d, 1), df) THEN i
    ELSE first_nonpositive(d, df, i + 1, lam_max)

\* sp.optimize.brentq(lambda l: dfFun(l, d, hat1) - df, 0, lam_max) (line 216),
\* for f(0) > 0 >= f(lam_max): a grid point next to the sign change of f, the
\* one below it or the one above it as the search happens to end (round_up)
brentq(d, df, lam_max, round_up) ==
    LET p == first_nonpositive(d, df, 0, lam_max)
    IN  IF round_up \/ SumHat(Frac(p, LamDen), d, 1) = df THEN Frac(p, LamDen)
        ELSE Frac(p - 1, LamDen)

\* the check of line 217 left out
root_is_imprecise_unchecked(lam, d, df) == FALSE

\* line 217: abs(dfFun(lam, d, hat1) - df) > np.sqrt(machine_epsilon)
root_is_imprecise(lam, d, df) ==
    ExceedsSqrtEps(RAbs(RSub(SumHat(lam, d, 1), df)))

\* lines 205-221: lam from df
lambda_from_df(d, df, hat1, lam_max, round_up) ==
    IF RLe(Num(Len(d)), df) THEN Returned(df, Zero)
    ELSE LET at_max == dfFun(Num(lam_max), d, hat1) IN
    IF at_max.raised # NoExc THEN Raised(at_max.raised)
    ELSE IF ExceedsSqrtEps(RSub(at_max.res, df)) THEN Warned
    ELSE IF RLt(df, at_max.res) THEN Raised("ValueError")
    ELSE LET lam == brentq(d, df, lam_max, round_up) IN
    IF root_is_imprecise(lam, d, df) THEN Warned
    ELSE Returned(df, lam)

\* a plausible slip: the warning of line 171 is not raised, and lines 172-173
\* return the df that was asked for
df2lambda_warning_passes(dm, P0, df, lam, hat1, lam_max) ==
    IF df = None /\ lam = None THEN Raised("Exception")
    ELSE IF df # None /\ RLe(Num(dm.rank), df) THEN Returned(df, Zero)
    ELSE IF lam # None /\ lam = Zero THEN Returned(Num(dm.rank), lam)
    ELSE LET A == make_matrix_positive_semi_definite(dm.min_eig, 0) IN
    IF A.raised # NoExc THEN Raised(A.raised)
    ELSE IF lam # None
    THEN LET r == dfFun(lam, dm.d, hat1)
         IN  IF r.raised # NoExc THEN Raised(r.raised) ELSE Returned(r.res, lam)
    ELSE lambda_from_df(dm.d, df, hat1, lam_max, dm.round_up)

\* a plausible slip: the branches of lines 201 and 205 in the opposite order,
\* so that a target df is solved for also when a lam is given
df2lambda_df_first(dm, P0, df, lam, hat1, lam_max) ==
    IF df = None /\ lam = None THEN Raised("Exception")
    ELSE IF df # None /\ RLe(Num(dm.rank), df) THEN Warned
    ELSE IF lam # None /\ lam = Zero THEN Returned(Num(dm.rank), lam)
    ELSE LET A == make_matrix_positive_semi_definite(dm.min_eig, 0) IN
    IF A.raised # NoExc THEN Raised(A.raised)
    ELSE IF df # None
    THEN lambda_from_df(dm.d, df, hat1, lam_max, dm.round_up)
    ELSE LET r == dfFun(lam, dm.d, hat1)
         IN  IF r.raised # NoExc THEN Raised(r.raised) ELSE Returned(r.res, lam)

\* lines 157-221
df2lambda(dm, P0, df, lam, hat1, lam_max) ==
    IF df = None /\ lam = None THEN Raised("Exception")
    ELSE IF df # None /\ RLe(Num(dm.rank), df) THEN Warned
    ELSE IF lam # None /\ lam = Zero THEN Returned(Num(dm.rank), lam)
    ELSE LET A == make_matrix_positive_semi_definite(dm.min_eig, 0) IN
    IF A.raised # NoExc THEN Raised(A.raised)
    ELSE IF lam # None
    THEN LET r == dfFun(lam, dm.d, hat1)
         IN  IF r.raised # NoExc THEN Raised(r.raised) ELSE Returned(r.res, lam)
    ELSE lambda_from_df(dm.d, df, hat1, lam_max, dm.round_up)

(***************************************************************************)
(* The data frame, and the design matrix patsy builds from a formula       *)
(* (dmatrix, called on line 493) with utils.Spline as stateful transform   *)
(***************************************************************************)

\* the rows of the data frame
NumRows == 4

x1 == <<"x", "1">>
x2 == <<"x", "2">>
x3 == <<"x", "3">>

\* data.columns
data_columns == <<x1, x2, x3>>

\* the value of a column in row r: x1 = 0, 1, 2, 3; x2 = 1, 0, 1, 0; x3 = 1, 1, 0, 1
data_value(name, r) ==
    IF name = x1 THEN r - 1
    ELSE IF name = x2 THEN r % 2
    ELSE IF r % 3 = 0 THEN 0 ELSE 1

\* data[name] as a column of reals
data_column(name) == [r \in 1..NumRows |-> Num(data_value(name, r))]

RECURSIVE SplitTopFrom(_, _, _, _, _, _)
SplitTopFrom(s, c, i, depth, cur, acc) ==
    IF i > Len(s) THEN Append(acc, cur)
    ELSE IF s[i] = c /\ depth = 0
    THEN SplitTopFrom(s, c, i + 1, depth, <<>>, Append(acc, cur))
    ELSE SplitTopFrom(s, c, i + 1,
                      IF s[i] = "(" THEN depth + 1
                      ELSE IF s[i] = ")" THEN depth - 1 ELSE depth,
                      Append(cur, s[i]), acc)

\* the pieces of s between the occurrences of c outside parentheses
SplitTop(s, c) == SplitTopFrom(s, c, 1, 0, <<>>, <<>>)

Digits == <<"0", "1", "2", "3", "4", "5", "6", "7", "8", "9">>

IsNumber(s) == Len(s) > 0 /\ \A i \in 1..Len(s) : InList(s[i], Digits)

RECURSIVE ParseNumber(_, _, _)
ParseNumber(s, i, acc) ==
    IF i > Len(s) THEN acc
    ELSE ParseNumber(s, i + 1,
                     10 * acc + (CHOOSE k \in 1..10 : Digits[k] = s[i]) - 1)

\* a quoted string without its quotes
Unquote(v) ==
    IF Len(v) >= 2 /\ v[1] \in {"\"", "'"} /\ v[Len(v)] = v[1]
    THEN SubSeq(v, 2, Len(v) - 1) ELSE v

\* 'sub' in s
Contains(s, sub) ==
    \E k \in 0..(Len(s) - Len(sub)) : SubSeq(s, k + 1, k + Len(sub)) = sub

spline_name == <<"s", "p", "l", "i", "n", "e">>
intercept_name == <<"I", "n", "t", "e", "r", "c", "e", "p", "t">>

\* the keyword argument key = value among the arguments of a call, or None
Keyword(args, key) ==
    LET at == {i \in 2..Len(args) : Split(args[i], "=")[1] = key}
    IN  IF at = {} THEN None
        ELSE Join(Tail(Split(args[CHOOSE i \in at : TRUE], "=")), "=")

\* the penalty matrix of a basis of df columns: the difference penalty of
\* BSplines, cyclic for CyclicCubicSplines (self.s.penalty_matrices[0])
penalty_entry(bs, df, i, j) ==
    IF i = j THEN (IF bs = <<"c", "c">> \/ (1 < i /\ i < df) THEN 2 ELSE 1)
    ELSE IF Abs(i - j) = 1 \/ (bs = <<"c", "c">> /\ Abs(i - j) = df - 1) THEN -1
    ELSE 0

penalty_matrix(bs, df) ==
    [i \in 1..df |-> [j \in 1..df |-> Num(penalty_entry(bs, df, i, j))]]

\* the basis evaluated on a data column: one column per cell of the data
\* range, rows summing to 1 (self.s.transform)
basis_columns(x, df) ==
    [j \in 1..df |->
        [r \in 1..NumRows |->
            IF (IF x[r][1] >= df THEN df ELSE x[r][1] + 1) = j THEN One ELSE Zero]]

\* a plausible slip: a tag that is not 'cc' is taken for 'bs'
spline_fit_any_basis(x, bs_arg, df_arg) ==
    LET bs == Unquote(bs_arg)
        df == IF df_arg = None THEN 4 ELSE ParseNumber(df_arg, 1, 0)
    IN  IF ~InList(x, data_columns) THEN [raised |-> "PatsyError"]
        ELSE IF bs_arg = None THEN [raised |-> "TypeError"]
        ELSE IF df_arg # None /\ ~IsNumber(df_arg) THEN [raised |-> "PatsyError"]
        ELSE [raised |-> NoExc,
              columns |-> basis_columns(data_column(x), df),
              penalty_matrices |-> <<penalty_matrix(bs, df)>>]

\* Spline.memorize_chunk (111-118) and Spline.transform (124-126) on the
\* column x with the keyword arguments bs and df as written (None if absent)
spline_fit(x, bs_arg, df_arg) ==
    LET bs == Unquote(bs_arg)
        df == IF df_arg = None THEN 4 ELSE ParseNumber(df_arg, 1, 0)
    IN  IF ~InList(x, data_columns) THEN [raised |-> "PatsyError"]
        ELSE IF bs_arg = None THEN [raised |-> "TypeError"]
        ELSE IF df_arg # None /\ ~IsNumber(df_arg) THEN [raised |-> "PatsyError"]
        ELSE IF ~(bs = <<"b", "s">> \/ bs = <<"c", "c">>)
        THEN [raised |-> "AssertionError"]
        ELSE [raised |-> NoExc,
              columns |-> basis_columns(data_column(x), df),
              penalty_matrices |-> <<penalty_matrix(bs, df)>>]

\* one factor spline(x, bs=..., df=...): the fitted object and the basis columns
Spline(args) ==
    spline_fit(args[1], Keyword(args, <<"b", "s">>), Keyword(args, <<"d", "f">>))

\* the factor_info of a call of spline, from the fitted object
spline_factor(factor, fitted) ==
    IF fitted.raised # NoExc
    THEN [raised |-> fitted.raised, name |-> factor, columns |-> <<>>,
          penalty_matrices |-> None]
    ELSE [raised |-> NoExc, name |-> factor, columns |-> fitted.columns,
          penalty_matrices |-> fitted.penalty_matrices]

\* one factor of a term evaluated on the data (factor_infos[factor]): a data
\* column, or a call of the stateful transform spline
eval_factor(factor) ==
    IF InList(factor, data_columns)
    THEN [raised |-> NoExc, name |-> factor, columns |-> <<data_column(factor)>>,
          penalty_matrices |-> None]
    ELSE IF /\ Len(factor) > Len(spline_name) + 1
            /\ SubSeq(factor, 1, Len(spline_name) + 1) = spline_name \o <<"(">>
            /\ factor[Len(factor)] = ")"
    THEN spline_factor(factor,
                       Spline(SplitTop(SubSeq(factor, Len(spline_name) + 2,
                                              Len(factor) - 1), ",")))
    ELSE [raised |-> "PatsyError", name |-> factor, columns |-> <<>>,
          penalty_matrices |-> None]

\* the columns of an interaction a:b: the products of a column of a and one of b
product_columns(a, b) ==
    [k \in 1..(Len(a) * Len(b)) |->
        [r \in 1..NumRows |->
            RMul(a[((k - 1) % Len(a)) + 1][r], b[((k - 1) \div Len(a)) + 1][r])]]

RECURSIVE term_columns(_, _)
term_columns(factors, i) ==
    IF i = Len(factors) THEN factors[i].columns
    ELSE product_columns(factors[i].columns, term_columns(factors, i + 1))

\* a term from its evaluated factors: its name, its factors, its columns
term_of(part, factors) ==
    LET bad == {i \in 1..Len(factors) : factors[i].raised # NoExc}
    IN  IF part = <<>> THEN [raised |-> "PatsyError", name |-> part,
                             factors |-> <<>>, columns |-> <<>>]
        ELSE IF bad # {}
        THEN [raised |-> factors[CHOOSE i \in bad : \A j \in bad : i <= j].raised,
              name |-> part, factors |-> <<>>, columns |-> <<>>]
        ELSE [raised |-> NoExc, name |-> part, factors |-> factors,
              columns |-> term_columns(factors, 1)]

eval_factors(names) == [i \in 1..Len(names) |-> eval_factor(names[i])]

\* a term of the formula evaluated
eval_term(part) == term_of(part, eval_factors(SplitTop(part, ":")))

intercept_term ==
    [raised |-> NoExc, name |-> intercept_name, factors |-> <<>>,
     columns |-> <<[r \in 1..NumRows |-> One]>>]

\* the terms that switch the intercept on or off
IsInterceptMark(part) == part \in {<<"1">>, <<"0">>, <<"-", "1">>}

RECURSIVE Dedupe(_, _, _)
\* patsy keeps the first occurrence of a repeated term
Dedupe(parts, i, acc) ==
    IF i > Len(parts) THEN acc
    ELSE Dedupe(parts, i + 1,
                IF InList(parts[i], acc) THEN acc ELSE Append(acc, parts[i]))

RECURSIVE ConcatColumns(_, _)
ConcatColumns(terms, i) ==
    IF i > Len(terms) THEN <<>>
    ELSE terms[i].columns \o ConcatColumns(terms, i + 1)

RECURSIVE WidthBefore(_, _)
\* the columns of the terms before term i
WidthBefore(terms, i) ==
    IF i = 1 THEN 0 ELSE WidthBefore(terms, i - 1) + Len(terms[i - 1].columns)

\* the design matrix of the evaluated terms: the columns, and design_info:
\* the terms with their factors and their slices <<start, stop>>
design_matrix(terms) ==
    LET bad == {i \in 1..Len(terms) : terms[i].raised # NoExc}
    IN  IF bad # {}
        THEN [raised |-> terms[CHOOSE i \in bad : \A j \in bad : i <= j].raised,
              columns |-> <<>>, terms |-> <<>>]
        ELSE [raised |-> NoExc,
              columns |-> ConcatColumns(terms, 1),
              terms |-> [i \in 1..Len(terms) |->
                            [name |-> terms[i].name,
                             factors |-> terms[i].factors,
                             slice |-> <<WidthBefore(terms, i),
                                         WidthBefore(terms, i) + Len(terms[i].columns)>>]]]

eval_terms(names) == [i \in 1..Len(names) |-> eval_term(names[i])]

\* the number of factors of a term
degree_of(part) == Len(SplitTop(part, ":"))

RECURSIVE by_degree(_, _)
\* patsy sorts the terms by their number of factors, and keeps the written
\* order among the terms of one degree
by_degree(parts, degree) ==
    IF \A k \in 1..Len(parts) : degree_of(parts[k]) < degree THEN <<>>
    ELSE SelectSeq(parts, LAMBDA q : degree_of(q) = degree) \o by_degree(parts, degree + 1)

\* the terms of the written parts in patsy's order: the intercept first,
\* unless "0" or "-1" is written, then the other terms, each once
formula_terms(parts) ==
    (IF ~InList(<<"0">>, parts) /\ ~InList(<<"-", "1">>, parts)
     THEN <<intercept_term>> ELSE <<>>)
        \o eval_terms(by_degree(Dedupe(SelectSeq(parts, LAMBDA q : ~IsInterceptMark(q)),
                                       1, <<>>), 1))

\* the right-hand side of a formula: what follows an optional "~"
right_hand_side(formula_like) ==
    IF Len(formula_like) > 0 /\ formula_like[1] = "~"
    THEN Tail(formula_like) ELSE formula_like

rhs_parts(text) == IF text = <<>> THEN << <<"1">> >> ELSE SplitTop(text, "+")

\* dmatrix(structured_part, data, return_type='dataframe') (line 493)
dmatrix(formula_like) ==
    design_matrix(formula_terms(rhs_parts(right_hand_side(formula_like))))

(***************************************************************************)
(* _get_info_from_design_matrix (358-400) and the feature names of a term  *)
(* (309-356)                                                               *)
(***************************************************************************)

IdentChars ==
    {"a", "b", "c", "d", "e", "f", "g", "h", "i", "j", "k", "l", "m", "n", "o",
     "p", "q", "r", "s", "t", "u", "v", "w", "x", "y", "z", "_", "I"}
        \cup {Digits[k] : k \in 1..10}

RECURSIVE co_names(_, _, _, _, _)
\* parser.expr(e).compile().co_names (line 325): the names the expression
\* loads; not the keywords of its calls, not the text of its string literals
co_names(e, i, cur, quote, acc) ==
    IF i > Len(e) THEN (IF cur = <<>> THEN acc ELSE acc \cup {cur})
    ELSE IF quote # ""
    THEN co_names(e, i + 1, <<>>, IF e[i] = quote THEN "" ELSE quote, acc)
    ELSE IF e[i] \in {"\"", "'"} THEN co_names(e, i + 1, <<>>, e[i], acc)
    ELSE IF e[i] \in IdentChars THEN co_names(e, i + 1, Append(cur, e[i]), quote, acc)
    ELSE co_names(e, i + 1, <<>>, quote,
                  IF cur = <<>> \/ e[i] = "=" \/ IsNumber(cur) THEN acc
                  ELSE acc \cup {cur})

\* lines 325-328
_get_input_features_for_functional_expression(functional_expression, feature_names) ==
    co_names(functional_expression, 1, <<>>, "", {})
        \cap {feature_names[k] : k \in 1..Len(feature_names)}

\* a plausible slip: only the first factor of the term is looked at
_get_input_features_of_first_factor(term, feature_names) ==
    IF Len(term.factors) = 0 THEN {}
    ELSE _get_input_features_for_functional_expression(term.factors[1].name,
                                                       feature_names)

\* lines 348-356
_get_all_input_features_for_term(term, feature_names) ==
    UNION {_get_input_features_for_functional_expression(
               term.factors[k].name, feature_names) : k \in 1..Len(term.factors)}

RECURSIVE info_loop_without_else(_, _, _, _, _)
\* a plausible slip: the non-spline lists are appended to for every term
info_loop_without_else(terms, i, feature_names, splines, non_splines) ==
    IF i > Len(terms) THEN <<splines, non_splines>>
    ELSE LET features == _get_all_input_features_for_term(terms[i], feature_names) IN
         info_loop_without_else(terms, i + 1, feature_names,
            IF Contains(terms[i].name, spline_name)
            THEN [list_of_spline_slices |->
                     Append(splines.list_of_spline_slices, terms[i].slice),
                  list_of_spline_input_features |->
                     Append(splines.list_of_spline_input_features, features),
                  list_of_term_names |->
                     Append(splines.list_of_term_names, terms[i].name)]
            ELSE splines,
            [list_of_non_spline_slices |->
                Append(non_splines.list_of_non_spline_slices, terms[i].slice),
             list_of_non_spline_input_features |->
                Append(non_splines.list_of_non_spline_input_features, features),
             list_of_term_names |->
                Append(non_splines.list_of_term_names, terms[i].name)])

RECURSIVE info_loop(_, _, _, _, _)
\* lines 381-398: every term goes to one of the two records
info_loop(terms, i, feature_names, splines, non_splines) ==
    IF i > Len(terms) THEN <<splines, non_splines>>
    ELSE LET features == _get_all_input_features_for_term(terms[i], feature_names) IN
         IF Contains(terms[i].name, spline_name)
         THEN info_loop(terms, i + 1, feature_names,
                [list_of_spline_slices |->
                    Append(splines.list_of_spline_slices, terms[i].slice),
                 list_of_spline_input_features |->
                    Append(splines.list_of_spline_input_features, features),
                 list_of_term_names |->
                    Append(splines.list_of_term_names, terms[i].name)],
                non_splines)
         ELSE info_loop(terms, i + 1, feature_names, splines,
                [list_of_non_spline_slices |->
                    Append(non_splines.list_of_non_spline_slices, terms[i].slice),
                 list_of_non_spline_input_features |->
                    Append(non_splines.list_of_non_spline_input_features, features),
                 list_of_term_names |->
                    Append(non_splines.list_of_term_names, terms[i].name)])

\* lines 373-400
_get_info_from_design_matrix(matrix, feature_names) ==
    info_loop(matrix.terms, 1, feature_names,
              [list_of_spline_slices |-> <<>>,
               list_of_spline_input_features |-> <<>>,
               list_of_term_names |-> <<>>],
              [list_of_non_spline_slices |-> <<>>,
               list_of_non_spline_input_features |-> <<>>,
               list_of_term_names |-> <<>>])

(***************************************************************************)
(* _get_P_from_design_matrix (259-307)                                     *)
(***************************************************************************)

RECURSIVE SumOver(_, _, _)
\* the sum of f[r] * g[r] over the rows from r on
SumOver(f, g, r) ==
    IF r > NumRows THEN Zero ELSE RAdd(RMul(f[r], g[r]), SumOver(f, g, r + 1))

\* the inner product of two columns
Dot(u, v) == SumOver(u, v, 1)

RECURSIVE MinReal(_, _)
MinReal(xs, i) ==
    IF i = Len(xs) THEN xs[i]
    ELSE LET m == MinReal(xs, i + 1) IN IF RLe(xs[i], m) THEN xs[i] ELSE m

RECURSIVE project_out(_, _, _)
\* v minus its projections on the orthogonal vectors basis[i..]
project_out(v, basis, i) ==
    IF i > Len(basis) THEN v
    ELSE LET b == basis[i]
             c == RDiv(Dot(v, b), Dot(b, b))
         IN  project_out([r \in 1..NumRows |-> RSub(v[r], RMul(c, b[r]))], basis, i + 1)

RECURSIVE orthogonal_basis(_, _, _)
\* an orthogonal basis of the span of the columns (the columns of Q, not normalised)
orthogonal_basis(columns, i, basis) ==
    IF i > Len(columns) THEN basis
    ELSE LET w == project_out(columns[i], basis, 1)
         IN  orthogonal_basis(columns, i + 1,
                              IF Dot(w, w) = Zero THEN basis ELSE Append(basis, w))

\* a plausible slip: the rank is taken to be the number of non-zero columns
\* and the smallest eigenvalue the smallest squared norm, as if dm.T @ dm
\* were diagonal for every matrix
term_design_matrix_diagonal(columns, num) ==
    [rank |-> Cardinality({k \in 1..Len(columns) : Dot(columns[k], columns[k]) # Zero}),
     min_eig |-> MinReal([k \in 1..Len(columns) |-> Dot(columns[k], columns[k])], 1),
     d |-> SubSeq(num.d, 1, Len(columns)),
     round_up |-> num.round_up]

\* the rank and the smallest eigenvalue of dm.T @ dm from an orthogonal
\* basis of the columns: linearly dependent columns make dm.T @ dm singular
\* (smallest eigenvalue 0); for columns with disjoint supports dm.T @ dm is
\* diagonal and its smallest eigenvalue is the smallest squared norm
rank_and_min_eig(columns, basis, num) ==
    [rank |-> Len(basis),
     min_eig |-> IF Len(basis) < Len(columns) THEN Zero
                 ELSE MinReal([k \in 1..Len(columns) |-> Dot(columns[k], columns[k])], 1),
     d |-> SubSeq(num.d, 1, Len(columns)),
     round_up |-> num.round_up]

\* what numpy and scipy compute in df2lambda from the columns of one term
\* (matrix_rank, eigh of A); the singular values d and the end of the root
\* search are those of the numerical environment
term_design_matrix(columns, num) ==
    rank_and_min_eig(columns, orthogonal_basis(columns, 1, <<>>), num)

\* lines 241-257: the penalty matrices of a spline factor, None (False) for a
\* factor that is no spline; a plain column whose name contains 'spline' has
\* no transform in pass_bins
_get_penalty_matrix_from_factor_info(factor_info) ==
    IF ~Contains(factor_info.name, spline_name) THEN [raised |-> NoExc, P |-> None]
    ELSE IF factor_info.penalty_matrices = None THEN [raised |-> "IndexError", P |-> None]
    ELSE [raised |-> NoExc, P |-> factor_info.penalty_matrices]

\* P[0] * lam
scale_matrix(P0, lam) ==
    [i \in 1..Len(P0) |-> [j \in 1..Len(P0) |-> RMul(P0[i][j], lam)]]

\* a plausible slip: the block is written over the full rows of the slice
set_block_full_rows(big_P, slice, block) ==
    [i \in 1..Len(big_P) |-> [j \in 1..Len(big_P) |->
        IF slice[1] < i /\ i <= slice[2]
        THEN block[i - slice[1]][((j - 1) % Len(block)) + 1]
        ELSE big_P[i][j]]]

\* line 302: big_P[slice_of_term, slice_of_term] = block
set_block(big_P, slice, block) ==
    [i \in 1..Len(big_P) |-> [j \in 1..Len(big_P) |->
        IF slice[1] < i /\ i <= slice[2] /\ slice[1] < j /\ j <= slice[2]
        THEN block[i - slice[1]][j - slice[1]]
        ELSE big_P[i][j]]]

\* a plausible slip: every spline reads the first entry of the list
dfs_entry_first(df_or_list, spline_counter) ==
    IF df_or_list.is_list
    THEN (IF Len(df_or_list.v) = 0 THEN [raised |-> "IndexError", df |-> None]
          ELSE [raised |-> NoExc, df |-> df_or_list.v[1]])
    ELSE [raised |-> NoExc, df |-> df_or_list.v[1]]

\* a plausible slip: past the end of the list the last entry is used again
dfs_entry_last(df_or_list, spline_counter) ==
    IF df_or_list.is_list
    THEN (IF Len(df_or_list.v) = 0 THEN [raised |-> "IndexError", df |-> None]
          ELSE IF spline_counter + 1 > Len(df_or_list.v)
          THEN [raised |-> NoExc, df |-> df_or_list.v[Len(df_or_list.v)]]
          ELSE [raised |-> NoExc, df |-> df_or_list.v[spline_counter + 1]])
    ELSE [raised |-> NoExc, df |-> df_or_list.v[1]]

\* line 298: df = df_or_list[spline_counter] if type(df_or_list) == list else df_or_list
dfs_entry(df_or_list, spline_counter) ==
    IF df_or_list.is_list
    THEN (IF spline_counter + 1 > Len(df_or_list.v) THEN [raised |-> "IndexError", df |-> None]
          ELSE [raised |-> NoExc, df |-> df_or_list.v[spline_counter + 1]])
    ELSE [raised |-> NoExc, df |-> df_or_list.v[1]]

\* the ceiling of the root search when df2lambda is called without lam_max
\* (1e+15 on line 157), on the model's grid
default_lam_max == 3

RECURSIVE P_loop(_, _, _, _, _, _)
\* lines 285-305: the loop over the terms; only a term of one factor that is
\* a spline gets a block
P_loop(dm, df_or_list, num, i, spline_counter, big_P) ==
    IF i > Len(dm.terms) THEN [raised |-> NoExc, filter |-> FALSE, P |-> big_P]
    ELSE LET term == dm.terms[i] IN
    IF Len(term.factors) # 1 THEN P_loop(dm, df_or_list, num, i + 1, spline_counter, big_P)
    ELSE LET pen == _get_penalty_matrix_from_factor_info(term.factors[1]) IN
    IF pen.raised # NoExc THEN [raised |-> pen.raised, filter |-> FALSE, P |-> None]
    ELSE IF pen.P = None THEN P_loop(dm, df_or_list, num, i + 1, spline_counter, big_P)
    ELSE LET df == dfs_entry(df_or_list, spline_counter) IN
    IF df.raised # NoExc THEN [raised |-> df.raised, filter |-> FALSE, P |-> None]
    ELSE LET dm_spline == SubSeq(dm.columns, term.slice[1] + 1, term.slice[2])
             df_lam == df2lambda(term_design_matrix(dm_spline, num), pen.P[1],
                                 df.df, None, TRUE, default_lam_max)
         IN
    IF df_lam.raised # NoExc
    THEN [raised |-> df_lam.raised, filter |-> df_lam.filter, P |-> None]
    ELSE P_loop(dm, df_or_list, num, i + 1, spline_counter + 1,
                set_block(big_P, term.slice, scale_matrix(pen.P[1], df_lam.lam)))

zero_matrix(n) == [i \in 1..n |-> [j \in 1..n |-> Zero]]

\* lines 277-307
_get_P_from_design_matrix(dm, df_or_list, num) ==
    P_loop(dm, df_or_list, num, 1, 0, zero_matrix(Len(dm.columns)))

(***************************************************************************)
(* _orthogonalize (403-409), _orthogonalize_spline_wrt_non_splines (411-428) *)
(***************************************************************************)

\* lines 405-407: X - Q Q^T X, Q from np.linalg.qr(constraints).  With at least
\* as many constraint columns as rows Q is square and Q Q^T is the identity.
\* (Linearly dependent constraint columns, fewer than rows, do not occur in
\* the formulas below.)
_orthogonalize(constraints, X) ==
    IF Len(constraints) >= NumRows
    THEN [k \in 1..Len(X) |-> [r \in 1..NumRows |-> Zero]]
    ELSE LET Q == orthogonal_basis(constraints, 1, <<>>)
         IN  [k \in 1..Len(X) |-> project_out(X[k], Q, 1)]

\* a plausible slip: the constraints are taken by position, the first two
\* columns of the matrix, whatever term they belong to
constraints_of_leading(columns, non_splines, spline_input_features, i) ==
    SubSeq(columns, 1, IF Len(columns) < 2 THEN Len(columns) ELSE 2)

RECURSIVE constraints_of_every_term(_, _, _, _)
\* a plausible slip: every non-spline term is a constraint, whatever its features
constraints_of_every_term(columns, non_splines, spline_input_features, i) ==
    IF i > Len(non_splines.list_of_non_spline_slices) THEN <<>>
    ELSE SubSeq(columns, non_splines.list_of_non_spline_slices[i][1] + 1,
                non_splines.list_of_non_spline_slices[i][2])
         \o constraints_of_every_term(columns, non_splines, spline_input_features, i + 1)

RECURSIVE constraints_of_with_features(_, _, _, _)
\* a plausible slip: a term without input features (the intercept) is no constraint
constraints_of_with_features(columns, non_splines, spline_input_features, i) ==
    IF i > Len(non_splines.list_of_non_spline_slices) THEN <<>>
    ELSE (IF /\ non_splines.list_of_non_spline_input_features[i] # {}
             /\ non_splines.list_of_non_spline_input_features[i]
                    \subseteq spline_input_features
          THEN SubSeq(columns, non_splines.list_of_non_spline_slices[i][1] + 1,
                      non_splines.list_of_non_spline_slices[i][2])
          ELSE <<>>)
         \o constraints_of_with_features(columns, non_splines, spline_input_features, i + 1)

RECURSIVE constraints_of(_, _, _, _)
\* lines 420-423: the columns of the non-spline terms whose features are a
\* subset of the spline's features
constraints_of(columns, non_splines, spline_input_features, i) ==
    IF i > Len(non_splines.list_of_non_spline_slices) THEN <<>>
    ELSE (IF non_splines.list_of_non_spline_input_features[i]
                \subseteq spline_input_features
          THEN SubSeq(columns, non_splines.list_of_non_spline_slices[i][1] + 1,
                      non_splines.list_of_non_spline_slices[i][2])
          ELSE <<>>)
         \o constraints_of(columns, non_splines, spline_input_features, i + 1)

RECURSIVE orthogonalize_loop(_, _, _, _)
\* lines 415-428: the spline terms in turn, each overwriting its own columns
orthogonalize_loop(columns, splines, non_splines, i) ==
    IF i > Len(splines.list_of_spline_slices) THEN columns
    ELSE LET slice == splines.list_of_spline_slices[i]
             X == SubSeq(columns, slice[1] + 1, slice[2])
             constraints == constraints_of(columns, non_splines,
                                splines.list_of_spline_input_features[i], 1)
             constrained_X == _orthogonalize(constraints, X)
         IN  orthogonalize_loop(
                 IF Len(constraints) > 0
                 THEN [k \in 1..Len(columns) |->
                          IF slice[1] < k /\ k <= slice[2]
                          THEN constrained_X[k - slice[1]] ELSE columns[k]]
                 ELSE columns,
                 splines, non_splines, i + 1)

\* lines 411-428: the columns of matrix afterwards
_orthogonalize_spline_wrt_non_splines(matrix, splines, non_splines) ==
    orthogonalize_loop(matrix.columns, splines, non_splines, 1)

(***************************************************************************)
(* _checkups (17-45) and the steps of parse_formulas (430-542)             *)
(***************************************************************************)

\* family.get_params()
family_params == <<"loc", "scale">>

\* the key 'structured' of meta_datadict[param]
structured_key == <<"s", "t", "r", "u", "c", "t", "u", "r", "e", "d">>

null_formula == <<"~", "0">>

\* dict[key] = value
Put(dict, key, value) ==
    [k \in DOMAIN dict \cup {key} |-> IF k = key THEN value ELSE dict[k]]

\* a plausible slip: one entry per formula given, not per parameter
_checkups_per_formula(params, formulas_given) ==
    LET given == SelectSeq(<<"loc", "scale", "rate">>,
                           LAMBDA k : k \in DOMAIN formulas_given)
    IN  [i \in 1..Len(given) |-> <<given[i], formulas_given[given[i]]>>]

\* lines 37-45
_checkups(params, formulas_given) ==
    [i \in 1..Len(params) |->
        IF params[i] \in DOMAIN formulas_given
        THEN <<params[i], formulas_given[params[i]]>>
        ELSE <<params[i], null_formula>>]

\* list(deep_models_dict.keys())
net_names == [i \in 1..Len(deep_models_dict) |-> deep_models_dict[i][1]]

\* deep_models_dict[net_name]
deep_model(net_name) ==
    deep_models_dict[CHOOSE i \in 1..Len(deep_models_dict) :
                        deep_models_dict[i][1] = net_name][2]

\* the parameter of the running loop body
param == new_formulas[param_index][1]

NoSplit == [structured_part |-> <<>>, unstructured_terms |-> <<>>]

SplitIdle ==
    /\ sf_pc = "idle"
    /\ sf_formula = <<>>
    /\ sf_net_names_list = <<>>
    /\ sf_result = NoSplit

NoCall == Raised(NoExc)

DfIdle ==
    /\ df_pc = "idle"
    /\ df_args = <<>>
    /\ df_result = NoCall
    /\ df_back = NoCall

\* a Spline object before memorize_chunk: no attribute s, no penalty_matrices
NoBasis == [fitted |-> FALSE, bs |-> <<>>, df |-> 0, x |-> <<>>]

SplineIdle ==
    /\ sp_s = NoBasis
    /\ sp_penalty_matrices = None
    /\ sp_log = <<>>

PsdIdle ==
    /\ psd_pc = "idle"
    /\ psd_A = <<>>
    /\ psd_result = None
    /\ psd_exc = NoExc
    /\ psd_steps = 0

OrthIdle ==
    /\ orth_formula = <<>>
    /\ orth_matrix = <<>>
    /\ orth_info = <<>>
    /\ orth_local = <<>>

UnitsIdle ==
    /\ unit = "none"
    /\ SplineIdle
    /\ PsdIdle
    /\ OrthIdle

ParseIdle ==
    /\ pc = "idle"
    /\ exc = NoExc
    /\ formulas = <<>>
    /\ deep_models_dict = <<>>
    /\ degrees_of_freedom = <<>>
    /\ numerics = <<>>
    /\ new_formulas = <<>>
    /\ param_index = 0
    /\ dfs = <<>>
    /\ structured_part = <<>>
    /\ unstructured_terms = <<>>
    /\ structured_matrix = <<>>
    /\ spline_info = <<>>
    /\ non_spline_info = <<>>
    /\ P = <<>>
    /\ meta_datadict = <<>>
    /\ parsed_formula_contents = <<>>
    /\ dm_info_dict = <<>>

\* the filter after a call: simplefilter('error') stays installed
FilterAfter(result) == IF result.filter THEN "error" ELSE warnings_filter

\* the call ends with an exception: nothing is returned
Raise(e) ==
    /\ pc' = "raised"
    /\ exc' = e

\* lines 466-470
Checkups ==
    /\ pc = "start"
    /\ new_formulas' = _checkups(family_params, formulas)
    /\ meta_datadict' = <<>>
    /\ parsed_formula_contents' = <<>>
    /\ dm_info_dict' = <<>>
    /\ param_index' = 1
    /\ pc' = "loop"
    /\ UNCHANGED <<warnings_filter, unit_vars, split_vars, df_vars, exc, inputs, locals>>

\* a plausible slip: the entry is looked up only for a formula with a smooth
\* term (dfs.get(param) in place of dfs[param])
NextParamLenient ==
    /\ pc = "loop"
    /\ param_index <= Len(new_formulas)
    /\ meta_datadict' = Put(meta_datadict, param, <<>>)
    /\ parsed_formula_contents' = Put(parsed_formula_contents, param, <<>>)
    /\ IF param \in DOMAIN degrees_of_freedom
       THEN /\ dfs' = degrees_of_freedom[param]
            /\ pc' = "split"
            /\ exc' = exc
       ELSE IF \E k \in 1..Len(new_formulas[param_index][2]) :
                   new_formulas[param_index][2][k] = "s"
            THEN /\ Raise("KeyError")
                 /\ dfs' = dfs
            ELSE /\ dfs' = dfs
                 /\ pc' = "split"
                 /\ exc' = exc
    /\ UNCHANGED <<warnings_filter, unit_vars, split_vars, df_vars, inputs, new_formulas,
                   param_index, structured_part, unstructured_terms,
                   structured_matrix, spline_info, non_spline_info, P, dm_info_dict>>

\* lines 473-477: the next parameter, its two empty dictionaries, its dfs
NextParam ==
    /\ pc = "loop"
    /\ param_index <= Len(new_formulas)
    /\ meta_datadict' = Put(meta_datadict, param, <<>>)
    /\ parsed_formula_contents' = Put(parsed_formula_contents, param, <<>>)
    /\ IF param \in DOMAIN degrees_of_freedom
       THEN /\ dfs' = degrees_of_freedom[param]
            /\ pc' = "split"
            /\ exc' = exc
       ELSE /\ Raise("KeyError")
            /\ dfs' = dfs
    /\ UNCHANGED <<warnings_filter, unit_vars, split_vars, df_vars, inputs, new_formulas,
                   param_index, structured_part, unstructured_terms,
                   structured_matrix, spline_info, non_spline_info, P, dm_info_dict>>

\* line 480
SplitFormula ==
    /\ pc = "split"
    /\ LET r == _split_formula(new_formulas[param_index][2], net_names)
       IN  /\ structured_part' = r.structured_part
           /\ unstructured_terms' = r.unstructured_terms
    /\ pc' = "null_model"
    /\ UNCHANGED <<warnings_filter, unit_vars, split_vars, df_vars, exc, inputs, new_formulas,
                   param_index, dfs, structured_matrix, spline_info,
                   non_spline_info, P, outputs>>

\* a plausible slip: the empty structured part goes to dmatrix as it is
null_model_missing(structured) == structured

\* lines 489-490: if not structured_part: structured_part = '~0'
null_model(structured) == IF structured = <<>> THEN null_formula ELSE structured

\* lines 489-490
NullModel ==
    /\ pc = "null_model"
    /\ structured_part' = null_model(structured_part)
    /\ pc' = "dmatrix"
    /\ UNCHANGED <<warnings_filter, unit_vars, split_vars, df_vars, exc, inputs, new_formulas,
                   param_index, dfs, unstructured_terms, structured_matrix,
                   spline_info, non_spline_info, P, outputs>>

\* lines 493-497
BuildMatrix ==
    /\ pc = "dmatrix"
    /\ \E dm \in {dmatrix(structured_part)} :
       \E info \in {_get_info_from_design_matrix(dm, data_columns)} :
           IF dm.raised # NoExc
           THEN /\ Raise(dm.raised)
                /\ UNCHANGED <<structured_matrix, spline_info, non_spline_info,
                               dm_info_dict>>
           ELSE /\ structured_matrix' = [columns |-> dm.columns, terms |-> dm.terms]
                /\ spline_info' = info[1]
                /\ non_spline_info' = info[2]
                /\ dm_info_dict' = Put(dm_info_dict, param, info[1])
                /\ pc' = "penalty"
                /\ exc' = exc
    /\ UNCHANGED <<warnings_filter, unit_vars, split_vars, df_vars, inputs, new_formulas,
                   param_index, dfs, structured_part, unstructured_terms, P,
                   meta_datadict, parsed_formula_contents>>

\* line 500
Penalty ==
    /\ pc = "penalty"
    /\ \E r \in {_get_P_from_design_matrix(structured_matrix, dfs, numerics)} :
           /\ warnings_filter' = FilterAfter(r)
           /\ IF r.raised # NoExc
              THEN Raise(r.raised) /\ P' = P
              ELSE P' = r.P /\ pc' = "orthogonalize" /\ exc' = exc
    /\ UNCHANGED <<unit_vars, split_vars, df_vars, inputs, new_formulas, param_index, dfs,
                   structured_part, unstructured_terms, structured_matrix,
                   spline_info, non_spline_info, outputs>>

\* lines 503-505
Orthogonalize ==
    /\ pc = "orthogonalize"
    /\ structured_matrix' =
          [structured_matrix EXCEPT !.columns =
              _orthogonalize_spline_wrt_non_splines(structured_matrix, spline_info,
                                                    non_spline_info)]
    /\ pc' = "assemble"
    /\ UNCHANGED <<warnings_filter, unit_vars, split_vars, df_vars, exc, inputs, new_formulas,
                   param_index, dfs, structured_part, unstructured_terms,
                   spline_info, non_spline_info, P, outputs>>

\* lines 508-512
Assemble ==
    /\ pc = "assemble"
    /\ meta_datadict' =
          Put(meta_datadict, param,
              Put(meta_datadict[param], structured_key, structured_matrix.columns))
    /\ parsed_formula_contents' =
          Put(parsed_formula_contents, param,
              [struct_shapes |-> Len(structured_matrix.columns),
               P |-> P,
               deep_models_dict |-> <<>>,
               deep_shapes |-> <<>>])
    /\ pc' = "unstructured"
    /\ UNCHANGED <<warnings_filter, unit_vars, split_vars, df_vars, exc, inputs, new_formulas,
                   param_index, locals, dm_info_dict>>

\* a plausible slip: the features in the opposite order
net_features_reversed(term_split) ==
    LET names == Split(Split(term_split[2], ")")[1], ",")
    IN  [k \in 1..Len(names) |-> names[Len(names) + 1 - k]]

\* lines 520-523: the names between '(' and ')', split at the commas
net_features(term_split) == Split(Split(term_split[2], ")")[1], ",")

RECURSIVE unstructured_loop(_, _, _, _)
\* lines 518-540: the raw columns and the model of every external-model term
unstructured_loop(terms, i, meta, parsed) ==
    IF i > Len(terms) THEN [raised |-> NoExc, meta |-> meta, parsed |-> parsed]
    ELSE LET term_split == Split(terms[i], "(") IN
    IF Len(term_split) < 2 THEN [raised |-> "IndexError", meta |-> meta, parsed |-> parsed]
    ELSE LET net_name == term_split[1]
             feature_names_list == net_features(term_split)
             entry == deep_model(net_name)
         IN
    IF \E k \in 1..Len(feature_names_list) : ~InList(feature_names_list[k], data_columns)
    THEN [raised |-> "KeyError", meta |-> meta, parsed |-> parsed]
    ELSE unstructured_loop(terms, i + 1,
            Put(meta, net_name,
                [k \in 1..Len(feature_names_list) |-> data_column(feature_names_list[k])]),
            [parsed EXCEPT
                !.deep_models_dict = Put(@, net_name, [entry.model EXCEPT !.str = FALSE]),
                !.deep_shapes = Put(@, net_name, entry.output_shape)])

\* lines 515-540, and the step to the next parameter
Unstructured ==
    /\ pc = "unstructured"
    /\ \E r \in {unstructured_loop(unstructured_terms, 1, meta_datadict[param],
                                   parsed_formula_contents[param])} :
           /\ meta_datadict' = Put(meta_datadict, param, r.meta)
           /\ parsed_formula_contents' = Put(parsed_formula_contents, param, r.parsed)
           /\ IF r.raised # NoExc
              THEN Raise(r.raised) /\ param_index' = param_index
              ELSE pc' = "loop" /\ exc' = exc /\ param_index' = param_index + 1
    /\ UNCHANGED <<warnings_filter, unit_vars, split_vars, df_vars, inputs, new_formulas,
                   locals, dm_info_dict>>

\* line 542
Return ==
    /\ pc = "loop"
    /\ param_index > Len(new_formulas)
    /\ pc' = "done"
    /\ UNCHANGED <<warnings_filter, unit_vars, split_vars, df_vars, exc, inputs, new_formulas,
                   param_index, locals, outputs>>

(***************************************************************************)
(* The calls of parse_formulas that are checked                            *)
(***************************************************************************)

\* the intercept alone: ~1
f_intercept == <<"~", "1">>

\* a linear term, written with spaces: ~1 + x1
f_linear == <<"~", "1", " ", "+", " ", "x", "1">>

\* an external model on three columns: ~1+d1(x2,x1,x3)
f_net == <<"~", "1", "+", "d", "1", "(", "x", "2", ",", "x", "1", ",", "x", "3", ")">>

\* external-model terms only: ~d1(x1)
f_only_net == <<"~", "d", "1", "(", "x", "1", ")">>

\* intercept, linear term, spline and external model: ~1+x1+spline(x1,bs="bs",df=3)+d2(x3)
f_spline_net == <<"~", "1", "+", "x", "1", "+", "s", "p", "l", "i", "n", "e", "(", "x", "1", ",", "b", "s", "=", "\"", "b", "s", "\"", ",", "d", "f", "=", "3", ")", "+", "d", "2", "(", "x", "3", ")">>

\* a spline alone, without intercept: ~-1+spline(x1,bs="bs",df=2)
f_spline == <<"~", "-", "1", "+", "s", "p", "l", "i", "n", "e", "(", "x", "1", ",", "b", "s", "=", "\"", "b", "s", "\"", ",", "d", "f", "=", "2", ")">>

\* a spline times a column: ~-1+spline(x1,bs="bs",df=2):x2+x3+d1(x1)
f_interaction == <<"~", "-", "1", "+", "s", "p", "l", "i", "n", "e", "(", "x", "1", ",", "b", "s", "=", "\"", "b", "s", "\"", ",", "d", "f", "=", "2", ")", ":", "x", "2", "+", "x", "3", "+", "d", "1", "(", "x", "1", ")">>

\* two splines: ~1+spline(x1,bs="bs",df=3)+spline(x1,bs="cc",df=3)
f_two_splines == <<"~", "1", "+", "s", "p", "l", "i", "n", "e", "(", "x", "1", ",", "b", "s", "=", "\"", "b", "s", "\"", ",", "d", "f", "=", "3", ")", "+", "s", "p", "l", "i", "n", "e", "(", "x", "1", ",", "b", "s", "=", "\"", "c", "c", "\"", ",", "d", "f", "=", "3", ")">>

\* a spline with a basis column that is zero on the data: ~1+spline(x2,bs="bs",df=3)
f_empty_cell == <<"~", "1", "+", "s", "p", "l", "i", "n", "e", "(", "x", "2", ",", "b", "s", "=", "\"", "b", "s", "\"", ",", "d", "f", "=", "3", ")">>

\* the same external model twice: ~d1(x1)+d1(x3,x2)
f_net_twice == <<"~", "d", "1", "(", "x", "1", ")", "+", "d", "1", "(", "x", "3", ",", "x", "2", ")">>

\* an external model named structured: ~1+structured(x2)
f_net_structured == <<"~", "1", "+", "s", "t", "r", "u", "c", "t", "u", "r", "e", "d", "(", "x", "2", ")">>

\* an external model without arguments: ~1+d1
f_net_bare == <<"~", "1", "+", "d", "1">>

\* a column the data does not have: ~1+x4
f_unknown == <<"~", "1", "+", "x", "4">>

\* a formula with three smooth terms:
\* ~1+spline(x1,bs="bs",df=3)+spline(x1,bs="cc",df=3)+spline(x1,bs="bs",df=2):x2
f_three_smooth == f_two_splines \o SubSeq(f_interaction, 4, 30)

FormulaMenu ==
    {f_intercept, f_linear, f_net, f_only_net, f_spline_net, f_spline,
     f_interaction, f_two_splines, f_three_smooth, f_empty_cell, f_net_twice,
     f_net_structured, f_net_bare, f_unknown}

\* the dictionaries with some of the keys of a choice
DictsOf(all_keys, choices) ==
    {[k \in keys |-> c[k]] : keys \in SUBSET all_keys, c \in choices}

\* formulas: any formula of the menu, or none, for loc; two formulas or none
\* for scale; a formula for rate, which is no parameter of the family, or none
FormulaDicts ==
    DictsOf({"loc", "scale", "rate"},
            [loc : FormulaMenu, scale : {f_linear, f_spline}, rate : {f_intercept}])

\* a degrees-of-freedom entry: one number, or a list with a number per spline
scalar(n, d) == [is_list |-> FALSE, v |-> <<Frac(n, d)>>]
list(v) == [is_list |-> TRUE, v |-> v]

\* degrees_of_freedom: a number or a list (of two entries, one or none) for
\* loc, a number for scale, or no entry
DegreesOfFreedomDicts ==
    DictsOf({"loc", "scale"},
            [loc : {scalar(2, 1), scalar(3, 2), list(<<Frac(2, 1), Frac(3, 2)>>),
                    list(<<Frac(2, 1)>>), list(<<>>)},
             scale : {scalar(3, 2)}])

DeepModel(name, shape) ==
    <<name, [model |-> [str |-> FALSE, id |-> name], output_shape |-> shape]>>
d1 == <<"d", "1">>
d2 == <<"d", "2">>

DeepModelDicts ==
    {<<DeepModel(d1, 15), DeepModel(d2, 8)>>,
     <<DeepModel(d1, 15), <<d2, [model |-> [str |-> TRUE, id |-> d2], output_shape |-> 8]>>,
       DeepModel(structured_key, 3)>>}

\* the singular values of the first three columns of a term, and where the
\* root search ends
Numerics ==
    {[d |-> <<0, 1, 1>>, round_up |-> TRUE],
     [d |-> <<0, 1, 2>>, round_up |-> TRUE],
     [d |-> <<0, 1, 2>>, round_up |-> FALSE]}

Init ==
    /\ warnings_filter = "default"
    /\ UnitsIdle
    /\ SplitIdle
    /\ DfIdle
    /\ pc = "start"
    /\ exc = NoExc
    /\ formulas \in FormulaDicts
    /\ deep_models_dict \in DeepModelDicts
    /\ degrees_of_freedom \in DegreesOfFreedomDicts
    /\ numerics \in Numerics
    /\ new_formulas = <<>>
    /\ param_index = 0
    /\ dfs = <<>>
    /\ structured_part = <<>>
    /\ unstructured_terms = <<>>
    /\ structured_matrix = <<>>
    /\ spline_info = <<>>
    /\ non_spline_info = <<>>
    /\ P = <<>>
    /\ meta_datadict = <<>>
    /\ parsed_formula_contents = <<>>
    /\ dm_info_dict = <<>>

Next ==
    \/ Checkups
    \/ NextParam
    \/ SplitFormula
    \/ NullModel
    \/ BuildMatrix
    \/ Penalty
    \/ Orthogonalize
    \/ Assemble
    \/ Unstructured
    \/ Return

Spec == Init /\ [][Next]_vars

(***************************************************************************)
(* Calls of _split_formula on every short formula                          *)
(***************************************************************************)

\* the longest formula given to _split_formula
MaxFormulaLen == 5

FormulaChars == {"~", "+", " ", "(", "d", "x"}

\* the lists of external-model names: none, d, d and dx
NetNameLists == {<<>>, << <<"d">> >>, << <<"d">>, <<"d", "x">> >>}

StringsUpTo(chars, n) == UNION {[1..k -> chars] : k \in 0..n}

InitSplit ==
    /\ warnings_filter = "default"
    /\ UnitsIdle
    /\ sf_pc = "call"
    /\ sf_formula \in StringsUpTo(FormulaChars, MaxFormulaLen)
    /\ sf_net_names_list \in NetNameLists
    /\ sf_result = NoSplit
    /\ DfIdle
    /\ ParseIdle

CallSplitFormula ==
    /\ sf_pc = "call"
    /\ sf_result' = _split_formula(sf_formula, sf_net_names_list)
    /\ sf_pc' = "returned"
    /\ UNCHANGED <<warnings_filter, sf_formula, sf_net_names_list, df_vars, parse_vars, unit_vars>>

NextSplit == CallSplitFormula

SpecSplit == InitSplit /\ [][NextSplit]_vars

(***************************************************************************)
(* Calls of df2lambda                                                      *)
(***************************************************************************)

\* the most columns of a term's design matrix
MaxCols == 2
\* the largest singular value d_i
MaxD == 2
\* the ceiling lam_max of the calls
LamMax == 3

\* what numpy can report of a design matrix with n columns: full rank and a
\* well-conditioned A, full rank and a smallest eigenvalue of A of 1e-8, or
\* one column dependent on the others
DesignMatricesOf(d) ==
    {[rank |-> r[1], min_eig |-> r[2], d |-> d, round_up |-> u] :
        r \in {<<Len(d), One>>, <<Len(d), <<1, 100000000>> >>, <<Len(d) - 1, Zero>>},
        u \in BOOLEAN}

DesignMatrices ==
    UNION {DesignMatricesOf(d) : d \in UNION {[1..n -> 0..MaxD] : n \in 1..MaxCols}}

OptionalReals(top) == {None} \cup {Frac(k, LamDen) : k \in 0..(top * LamDen)}

InitDf ==
    /\ warnings_filter = "default"
    /\ UnitsIdle
    /\ SplitIdle
    /\ ParseIdle
    /\ df_pc = "call"
    /\ df_args \in [dm : DesignMatrices,
                    df : OptionalReals(MaxCols + 1),
                    lam : OptionalReals(LamMax) \cup {Frac(-1, MaxD + 1)},
                    hat1 : BOOLEAN,
                    lam_max : {LamMax}]
    /\ df_result = NoCall
    /\ df_back = NoCall

CallDf2Lambda ==
    /\ df_pc = "call"
    /\ LET r == df2lambda(df_args.dm, <<>>, df_args.df, df_args.lam,
                          df_args.hat1, df_args.lam_max)
       IN  /\ df_result' = r
           /\ df_pc' = IF r.raised = NoExc THEN "returned" ELSE "raised"
           /\ warnings_filter' = FilterAfter(r)
    /\ UNCHANGED <<split_vars, df_args, df_back, parse_vars, unit_vars>>

\* the way back: df from the lambda the first call returned
CallDf2LambdaBack ==
    /\ df_pc = "returned"
    /\ LET r == df2lambda(df_args.dm, <<>>, None, df_result.lam,
                          df_args.hat1, df_args.lam_max)
       IN  /\ df_back' = r
           /\ warnings_filter' = FilterAfter(r)
    /\ df_pc' = "checked"
    /\ UNCHANGED <<split_vars, df_args, df_result, parse_vars, unit_vars>>

NextDf == CallDf2Lambda \/ CallDf2LambdaBack

SpecDf == InitDf /\ [][NextDf]_vars

(***************************************************************************)
(* The Spline object (85-131), make_matrix_positive_semi_definite          *)
(* (134-148) and the loop of _orthogonalize_spline_wrt_non_splines         *)
(* (411-428), each exercised on its own and step by step                   *)
(***************************************************************************)

\* how many calls are made on one Spline object
MaxCalls == 3

\* Spline.memorize_chunk(x, bs, df), lines 111-118: the assert of line 112
\* comes before any assignment; a fit replaces s and penalty_matrices
MemorizeChunk ==
    /\ unit = "Spline"
    /\ Len(sp_log) < MaxCalls
    /\ \E x \in {x1, x2, x3},
          bs_arg \in {<<"\"", "b", "s", "\"">>, <<"\"", "c", "c", "\"">>,
                      <<"\"", "t", "p", "\"">>},
          df_arg \in {<<"2">>, <<"3">>} :
          \E f \in {spline_fit(x, bs_arg, df_arg)} :
              /\ sp_s' = IF f.raised = NoExc
                         THEN [fitted |-> TRUE, bs |-> Unquote(bs_arg),
                               df |-> Len(f.columns), x |-> x]
                         ELSE sp_s
              /\ sp_penalty_matrices' = IF f.raised = NoExc THEN f.penalty_matrices
                                        ELSE sp_penalty_matrices
              /\ sp_log' = Append(sp_log,
                                  [op |-> "memorize_chunk", x |-> x,
                                   bs |-> Unquote(bs_arg), raised |-> f.raised,
                                   out |-> <<>>, s |-> sp_s',
                                   penalty_matrices |-> sp_penalty_matrices'])
    /\ UNCHANGED <<warnings_filter, split_vars, df_vars, parse_vars, unit, psd_vars,
                   orth_vars>>

\* a plausible slip: transform fits the basis again, on the column it is given
TransformRefitting ==
    /\ unit = "Spline"
    /\ Len(sp_log) < MaxCalls
    /\ \E x \in {x1, x2, x3} :
          /\ sp_s' = IF sp_s.fitted THEN [sp_s EXCEPT !.x = x] ELSE sp_s
          /\ sp_log' = Append(sp_log,
                              [op |-> "transform", x |-> x, bs |-> <<>>,
                               raised |-> IF sp_s.fitted THEN NoExc ELSE "AttributeError",
                               out |-> IF sp_s.fitted
                                       THEN basis_columns(data_column(x), sp_s.df)
                                       ELSE <<>>,
                               s |-> sp_s', penalty_matrices |-> sp_penalty_matrices])
    /\ UNCHANGED <<warnings_filter, split_vars, df_vars, parse_vars, unit,
                   sp_penalty_matrices, psd_vars, orth_vars>>

\* Spline.transform(x, ...), lines 124-126: self.s.transform on the column;
\* nothing is assigned.  Without a fit there is no attribute s.
Transform ==
    /\ unit = "Spline"
    /\ Len(sp_log) < MaxCalls
    /\ \E x \in {x1, x2, x3} :
          sp_log' = Append(sp_log,
                           [op |-> "transform", x |-> x, bs |-> <<>>,
                            raised |-> IF sp_s.fitted THEN NoExc ELSE "AttributeError",
                            out |-> IF sp_s.fitted
                                    THEN basis_columns(data_column(x), sp_s.df)
                                    ELSE <<>>,
                            s |-> sp_s, penalty_matrices |-> sp_penalty_matrices])
    /\ UNCHANGED <<warnings_filter, split_vars, df_vars, parse_vars, unit, sp_s,
                   sp_penalty_matrices, psd_vars, orth_vars>>

\* lines 138-141 and 148: the smallest eigenvalue minus sqrt(machine_epsilon)
\* against -1e-10; a matrix that passes is returned as it is
PsdCheck ==
    /\ unit = "make_matrix_positive_semi_definite"
    /\ psd_pc = "check"
    /\ \E min_eig \in {MinReal(psd_A, 1)} :
          IF min_eig[1] <= 0 \/ (min_eig[2] \div min_eig[1]) >= inv_psd_threshold
          THEN /\ psd_pc' = "repair"
               /\ UNCHANGED <<psd_result, psd_exc>>
          ELSE /\ psd_pc' = "returned"
               /\ psd_result' = psd_A
               /\ UNCHANGED psd_exc
    /\ UNCHANGED <<warnings_filter, split_vars, df_vars, parse_vars, unit, spline_vars,
                   psd_A, psd_steps, orth_vars>>

\* how many repair steps are counted
MaxSteps == 3

\* a plausible slip: the recursive call is made with both arguments, on the
\* matrix as it was
PsdRepairAgain ==
    /\ unit = "make_matrix_positive_semi_definite"
    /\ psd_pc = "repair"
    /\ psd_steps' = IF psd_steps < MaxSteps THEN psd_steps + 1 ELSE psd_steps
    /\ psd_pc' = "check"
    /\ UNCHANGED <<warnings_filter, split_vars, df_vars, parse_vars, unit, spline_vars,
                   psd_A, psd_result, psd_exc, orth_vars>>

\* lines 142-146: rho and the shrunk matrix are computed into locals, then
\* the function calls itself with one argument of two, which is a TypeError
PsdRepair ==
    /\ unit = "make_matrix_positive_semi_definite"
    /\ psd_pc = "repair"
    /\ psd_steps' = IF psd_steps < MaxSteps THEN psd_steps + 1 ELSE psd_steps
    /\ psd_pc' = "raised"
    /\ psd_exc' = "TypeError"
    /\ UNCHANGED <<warnings_filter, split_vars, df_vars, parse_vars, unit, spline_vars,
                   psd_A, psd_result, orth_vars>>

\* lines 418-423 for the i-th smooth term: X and the constraints are read
OrthRead ==
    /\ unit = "_orthogonalize_spline_wrt_non_splines"
    /\ \E i \in 1..Len(orth_local) :
          /\ orth_local[i].at = "todo"
          /\ orth_local' =
                [orth_local EXCEPT ![i] =
                    [at |-> "read",
                     X |-> SubSeq(orth_matrix,
                                  orth_info[1].list_of_spline_slices[i][1] + 1,
                                  orth_info[1].list_of_spline_slices[i][2]),
                     constraints |->
                        constraints_of(orth_matrix, orth_info[2],
                                       orth_info[1].list_of_spline_input_features[i], 1)]]
    /\ UNCHANGED <<warnings_filter, split_vars, df_vars, parse_vars, unit, spline_vars,
                   psd_vars, orth_formula, orth_matrix, orth_info>>

\* the matrix with the columns of a slice replaced
write_slice(columns, slice, block) ==
    [k \in 1..Len(columns) |->
        IF slice[1] < k /\ k <= slice[2] THEN block[k - slice[1]] ELSE columns[k]]

\* lines 425-428 for the i-th smooth term: the projection is written in place
OrthWrite ==
    /\ unit = "_orthogonalize_spline_wrt_non_splines"
    /\ \E i \in 1..Len(orth_local) :
          /\ orth_local[i].at = "read"
          /\ orth_matrix' =
                IF Len(orth_local[i].constraints) > 0
                THEN write_slice(orth_matrix, orth_info[1].list_of_spline_slices[i],
                                 _orthogonalize(orth_local[i].constraints,
                                                orth_local[i].X))
                ELSE orth_matrix
          /\ orth_local' = [orth_local EXCEPT ![i].at = "done"]
    /\ UNCHANGED <<warnings_filter, split_vars, df_vars, parse_vars, unit, spline_vars,
                   psd_vars, orth_formula, orth_info>>

\* a fresh Spline object; or a symmetric matrix of up to MaxCols rows, by its
\* eigenvalues; or the design matrix of a formula with its term information
InitUnits ==
    /\ warnings_filter = "default"
    /\ SplitIdle
    /\ DfIdle
    /\ ParseIdle
    /\ \/ /\ unit = "Spline"
          /\ SplineIdle
          /\ PsdIdle
          /\ OrthIdle
       \/ /\ unit = "make_matrix_positive_semi_definite"
          /\ SplineIdle
          /\ OrthIdle
          /\ psd_pc = "check"
          /\ psd_A \in UNION {[1..n -> {Frac(-1, 1), Zero, Frac(1, 100000000),
                                        Frac(1, 10000000), One}] : n \in 1..MaxCols}
          /\ psd_result = None
          /\ psd_exc = NoExc
          /\ psd_steps = 0
       \/ /\ unit = "_orthogonalize_spline_wrt_non_splines"
          /\ SplineIdle
          /\ PsdIdle
          /\ orth_formula \in {f_linear, f_spline,
                                SubSeq(f_interaction, 1, 33),
                                f_two_splines, f_empty_cell, f_three_smooth}
          /\ \E dm \in {dmatrix(orth_formula)} :
                \E info \in {_get_info_from_design_matrix(dm, data_columns)} :
                    /\ orth_matrix = dm.columns
                    /\ orth_info = info
                    /\ orth_local = [i \in 1..Len(info[1].list_of_spline_slices) |->
                                        [at |-> "todo", X |-> <<>>,
                                         constraints |-> <<>>]]

NextUnits ==
    \/ MemorizeChunk
    \/ Transform
    \/ PsdCheck
    \/ PsdRepair
    \/ OrthRead
    \/ OrthWrite

SpecUnits == InitUnits /\ [][NextUnits]_vars

\* a call of make_matrix_positive_semi_definite runs to its end: the
\* interpreter does not suspend a started call for ever
SpecUnitsFair == SpecUnits /\ WF_vars(PsdCheck \/ PsdRepair)

(***************************************************************************)
(* The claims about _split_formula                                         *)
(***************************************************************************)

\* the text of a term before its first '(' (the whole term when it has none)
TextBeforeParen(part) ==
    LET at == {k \in 1..Len(part) : part[k] = "("}
        first == IF at = {} THEN Len(part) + 1
                 ELSE CHOOSE k \in at : \A j \in at : k <= j
    IN  SubSeq(part, 1, first - 1)

IsExternalTerm(part, nets) == \E i \in 1..Len(nets) : nets[i] = TextBeforeParen(part)

\* the positions, among the first i terms, of the external-model terms
ExternalsUpTo(parts, nets, i) == {j \in 1..i : IsExternalTerm(parts[j], nets)}

\* C3: every '+'-separated term of the formula (spaces and '~' removed) is in
\* exactly one of the two results of _split_formula: in the external list if
\* and only if the text before its first '(' is a known external-model name,
\* otherwise in the structured part; both keep the formula's order, and no
\* term is lost or duplicated.
C3_SplitPartition ==
    sf_pc = "returned" =>
        LET parts == formula_parts_of(sf_formula)
            nets == sf_net_names_list
            ext == ExternalsUpTo(parts, nets, Len(parts))
            str == (1..Len(parts)) \ ext
            structured == IF str = {} THEN <<>>
                          ELSE Split(sf_result.structured_part, "+")
        IN  /\ Len(sf_result.unstructured_terms) = Cardinality(ext)
            /\ Len(structured) = Cardinality(str)
            /\ (str = {} => sf_result.structured_part = <<>>)
            /\ \A j \in ext :
                 sf_result.unstructured_terms[Cardinality(ExternalsUpTo(parts, nets, j))]
                    = parts[j]
            /\ \A j \in str :
                 structured[j - Cardinality(ExternalsUpTo(parts, nets, j))] = parts[j]

\* C3's case: a structured term, then an external term with an argument list
C3_Witness ==
    /\ sf_pc = "returned"
    /\ Len(sf_result.unstructured_terms) = 1
    /\ \E k \in 1..Len(sf_result.unstructured_terms[1]) :
            sf_result.unstructured_terms[1][k] = "("
    /\ sf_result.structured_part # <<>>
    /\ ~IsExternalTerm(formula_parts_of(sf_formula)[1], sf_net_names_list)

(***************************************************************************)
(* The claims about df2lambda                                              *)
(***************************************************************************)

\* the first call asked for the lambda of a target df below the rank
SolvedForLambda ==
    /\ df_args.df # None
    /\ df_args.lam = None
    /\ RLt(df_args.df, Num(df_args.dm.rank))

\* C7: round trip: for a feasible target df (below the rank, reachable at
\* lam_max), the df computed from the lambda that df2lambda returned for the
\* target is the target again, within 1e-4.
C7_RoundTrip ==
    (df_pc = "checked" /\ SolvedForLambda) =>
        /\ df_back.raised = NoExc
        /\ df_back.lam = df_result.lam
        /\ RLe(RAbs(RSub(df_back.df, df_args.df)), <<1, 10000>>)

\* C7's case: the root search found a lambda above 0 and the way back was taken
C7_Witness ==
    /\ df_pc = "checked"
    /\ SolvedForLambda
    /\ RLt(Zero, df_result.lam)
    /\ df_back.df = df_args.df

\* the call is over
Df2LambdaEnded == df_pc \in {"returned", "raised", "checked"}

\* C8: called with a target df >= the rank of the design matrix, df2lambda
\* warns and returns normally, with lambda = 0 and the rank as effective df;
\* the call is not aborted.
C8_TooLargeDfFallsBack ==
    (Df2LambdaEnded /\ df_args.df # None /\ RLe(Num(df_args.dm.rank), df_args.df)) =>
        /\ df_result.raised = NoExc
        /\ df_result.lam = Zero
        /\ df_result.df = Num(df_args.dm.rank)

\* the call reached line 209 and the df at lam_max is above the target by more
\* than the tolerance
UnreachableAtLamMax ==
    /\ SolvedForLambda
    /\ make_matrix_positive_semi_definite(df_args.dm.min_eig, 0).raised = NoExc
    /\ df_args.hat1
    /\ RLt(df_args.df, Num(Len(df_args.dm.d)))
    /\ ExceedsSqrtEps(RSub(SumHat(Num(df_args.lam_max), df_args.dm.d, 1), df_args.df))

\* C9: when the df at lam_max is above the target df by more than the
\* tolerance, df2lambda warns and returns normally, with lambda = lam_max and
\* the df reached at lam_max as its df.
C9_ClampedAtLamMax ==
    (Df2LambdaEnded /\ UnreachableAtLamMax) =>
        /\ df_result.raised = NoExc
        /\ df_result.lam = Num(df_args.lam_max)
        /\ df_result.df = SumHat(Num(df_args.lam_max), df_args.dm.d, 1)

(***************************************************************************)
(* The claims about parse_formulas                                         *)
(***************************************************************************)

\* parse_formulas has returned its three dictionaries
HasReturned == pc = "done"

\* the formula parse_formulas compiles for a parameter of the family
FormulaOf(p) == IF p \in DOMAIN formulas THEN formulas[p] ELSE null_formula

FamilyParams == {family_params[i] : i \in 1..Len(family_params)}

\* the first position of the character c in s (Len(s) + 1 if there is none)
FirstIndex(s, c) ==
    LET at == {k \in 1..Len(s) : s[k] = c}
    IN  IF at = {} THEN Len(s) + 1 ELSE CHOOSE k \in at : \A j \in at : k <= j

\* the feature names written between the parentheses of an external term
WrittenFeatures(term) ==
    SplitTop(SubSeq(term, FirstIndex(term, "(") + 1, FirstIndex(term, ")") - 1), ",")

FeatureColumns(names) == [k \in 1..Len(names) |-> data_column(names[k])]

\* the data columns of the features of an external term, in the written order
WrittenColumns(term) == FeatureColumns(WrittenFeatures(term))

\* the terms of a formula that are no external-model terms, joined again
\* ('~0' when no term is left)
WithoutExternals(parts, nets) ==
    LET kept == SelectSeq(parts, LAMBDA q : ~IsExternalTerm(q, nets))
    IN  IF kept = <<>> THEN null_formula ELSE Join(kept, "+")

StructuredFormula(p) == WithoutExternals(formula_parts_of(FormulaOf(p)), net_names)

\* the positions of the external-model terms of a formula
ExternalTerms(parts) == ExternalsUpTo(parts, net_names, Len(parts))

\* the last external term of the formula with the net of term j
LastOfNet(parts, j) ==
    CHOOSE k \in ExternalTerms(parts) :
        /\ TextBeforeParen(parts[k]) = TextBeforeParen(parts[j])
        /\ \A i \in ExternalTerms(parts) :
              TextBeforeParen(parts[i]) = TextBeforeParen(parts[j]) => i <= k

\* the columns of a design matrix after the orthogonalization of its splines
OrthogonalizedWith(dm, info) ==
    _orthogonalize_spline_wrt_non_splines(dm, info[1], info[2])

Orthogonalized(dm) ==
    OrthogonalizedWith(dm, _get_info_from_design_matrix(dm, data_columns))

NetsAsStored(p, parts) ==
    \A j \in ExternalTerms(parts) :
        meta_datadict[p][TextBeforeParen(parts[j])]
            = WrittenColumns(parts[LastOfNet(parts, j)])

NoNetNamedStructured(parts) ==
    \A j \in ExternalTerms(parts) : TextBeforeParen(parts[j]) # structured_key

\* C1 (as amended): when parse_formulas returns, meta_datadict[param][net]
\* holds, for every external-model term net(f1,...,fk) of the formula, the
\* data columns of the last term of that net in the order written, and
\* meta_datadict[param]['structured'] is the design matrix of the formula
\* without its external-model terms ('~0' if none is left) after the columns
\* of its splines were orthogonalized; an external model that is itself named
\* 'structured' takes that key with its raw columns.
C1_ExternalColumnsAndStructured ==
    HasReturned =>
        \A p \in FamilyParams :
            /\ NetsAsStored(p, formula_parts_of(FormulaOf(p)))
            /\ NoNetNamedStructured(formula_parts_of(FormulaOf(p))) =>
                  meta_datadict[p][structured_key]
                      = Orthogonalized(dmatrix(StructuredFormula(p)))

\* C1's case: an external model next to a spline: its column is stored, and
\* the orthogonalization has changed the columns of the spline
C1_Witness ==
    /\ HasReturned
    /\ "loc" \in DOMAIN formulas
    /\ formulas["loc"] = f_spline_net
    /\ meta_datadict["loc"][d2] = <<data_column(x3)>>
    /\ meta_datadict["loc"][structured_key] # dmatrix(StructuredFormula("loc")).columns
    /\ Len(meta_datadict["loc"][structured_key]) = 5

EveryNetAsWritten(p, parts) ==
    \A j \in ExternalTerms(parts) :
        meta_datadict[p][TextBeforeParen(parts[j])] = WrittenColumns(parts[j])

\* C1 (as written): for every formula with an external-model term net(f1..fk),
\* meta_datadict[param][net] holds the columns f1..fk in the written order and
\* meta_datadict[param]['structured'] equals the design matrix of the formula
\* with the external-model terms removed.
C1_StructuredIsDesignMatrix ==
    HasReturned =>
        \A p \in FamilyParams :
            ExternalTerms(formula_parts_of(FormulaOf(p))) # {} =>
                /\ EveryNetAsWritten(p, formula_parts_of(FormulaOf(p)))
                /\ meta_datadict[p][structured_key]
                      = dmatrix(StructuredFormula(p)).columns

\* C2: the three returned dictionaries have exactly one entry per parameter of
\* the family; a parameter of the family without a formula is compiled with
\* '~0' (a structured matrix without columns, a 0x0 penalty matrix); a
\* formula for a name that is no parameter of the family gives no entry.
C2_OneEntryPerFamilyParameter ==
    HasReturned =>
        /\ DOMAIN meta_datadict = FamilyParams
        /\ DOMAIN parsed_formula_contents = FamilyParams
        /\ DOMAIN dm_info_dict = FamilyParams
        /\ \A p \in FamilyParams \ DOMAIN formulas :
              /\ meta_datadict[p][structured_key] = <<>>
              /\ parsed_formula_contents[p].struct_shapes = 0
              /\ parsed_formula_contents[p].P = <<>>
              /\ dm_info_dict[p].list_of_spline_slices = <<>>

\* C2's case: no formula for scale, and a formula for rate, which is no
\* parameter of the family
C2_Witness ==
    /\ HasReturned
    /\ "scale" \notin DOMAIN formulas
    /\ "rate" \in DOMAIN formulas
    /\ "loc" \in DOMAIN formulas
    /\ parsed_formula_contents["loc"].struct_shapes > 0
    /\ parsed_formula_contents["scale"].struct_shapes = 0

\* every term of the formula of the running parameter is an external-model term
AllTermsExternal ==
    \A j \in 1..Len(formula_parts_of(new_formulas[param_index][2])) :
        IsExternalTerm(formula_parts_of(new_formulas[param_index][2])[j], net_names)

\* C4 (as amended): for a formula of external-model terms only, _split_formula
\* returns the empty string as structured part; it is parse_formulas that
\* replaces the empty string by the null-model formula '~0' before it builds
\* the design matrix.
C4_NullModelSetByParseFormulas ==
    /\ (pc = "null_model" /\ AllTermsExternal) => structured_part = <<>>
    /\ (pc = "dmatrix" /\ AllTermsExternal) => structured_part = null_formula

\* C4's case: a formula of external-model terms only reaches dmatrix as '~0'
C4_Witness ==
    /\ pc = "dmatrix"
    /\ AllTermsExternal
    /\ unstructured_terms # <<>>
    /\ structured_part = null_formula

\* C4 (as written): for a formula of external-model terms only, the structured
\* formula that _split_formula returns is the null-model formula, not the
\* empty string.
C4_SplitterReturnsNullModel ==
    (pc = "null_model" /\ AllTermsExternal) => structured_part = null_formula

\* some listed spline slice holds both i and j
InOneSplineSlice(slices, i, j) ==
    \E k \in 1..Len(slices) :
        /\ slices[k][1] < i /\ i <= slices[k][2]
        /\ slices[k][1] < j /\ j <= slices[k][2]

IsSquare(matrix, n) == Len(matrix) = n /\ \A i \in 1..n : Len(matrix[i]) = n

\* C5: for every parameter the returned penalty matrix P is square with side
\* struct_shapes, and every entry whose row and column are not both in the
\* slice of one smooth term is zero (so P is zero without smooth terms).
C5_PenaltyIsBlockDiagonal ==
    HasReturned =>
        \A p \in FamilyParams :
            /\ NoNetNamedStructured(formula_parts_of(FormulaOf(p))) =>
                  parsed_formula_contents[p].struct_shapes
                      = Len(meta_datadict[p][structured_key])
            /\ IsSquare(parsed_formula_contents[p].P,
                        parsed_formula_contents[p].struct_shapes)
            /\ \A i, j \in 1..parsed_formula_contents[p].struct_shapes :
                  ~InOneSplineSlice(dm_info_dict[p].list_of_spline_slices, i, j)
                      => parsed_formula_contents[p].P[i][j] = Zero

\* C5's case: a penalty matrix with a non-zero block beside columns that are
\* not penalized
C5_Witness ==
    /\ HasReturned
    /\ \E i \in 1..parsed_formula_contents["loc"].struct_shapes :
          parsed_formula_contents["loc"].P[i][i] # Zero
    /\ \E i \in 1..parsed_formula_contents["loc"].struct_shapes :
          ~InOneSplineSlice(dm_info_dict["loc"].list_of_spline_slices, i, i)

\* the term of the design matrix at a slice
TermAt(slice) ==
    structured_matrix.terms[CHOOSE t \in 1..Len(structured_matrix.terms) :
                                structured_matrix.terms[t].slice = slice]

\* the block of P at a slice
BlockOf(matrix, slice) ==
    [i \in 1..(slice[2] - slice[1]) |->
        [j \in 1..(slice[2] - slice[1]) |-> matrix[slice[1] + i][slice[1] + j]]]

\* the smooth terms of one factor among the first k listed ones
PenalizedUpTo(k) ==
    {i \in 1..k : Len(TermAt(spline_info.list_of_spline_slices[i]).factors) = 1}

\* the df target of the n-th smooth term (None past the end of a list)
TargetOf(n) ==
    IF ~dfs.is_list THEN dfs.v[1]
    ELSE IF n <= Len(dfs.v) THEN dfs.v[n] ELSE None

\* what df2lambda solves for the columns of a term, a roughness matrix and a target
SolvedFor(term, P0, df) ==
    df2lambda(term_design_matrix(SubSeq(structured_matrix.columns,
                                        term.slice[1] + 1, term.slice[2]), numerics),
              P0, df, None, TRUE, default_lam_max)

Times(P0, lam) == [i \in 1..Len(P0) |-> [j \in 1..Len(P0) |-> RMul(lam, P0[i][j])]]

\* the roughness matrix of the spline of a term
RoughnessOf(term) ==
    term.factors[CHOOSE f \in 1..Len(term.factors) :
                    term.factors[f].penalty_matrices # None].penalty_matrices[1]

\* the block of the term is its roughness matrix times the solved lambda
CalibratedBy(term, solved) ==
    /\ solved.raised = NoExc
    /\ BlockOf(P, term.slice) = Times(RoughnessOf(term), solved.lam)

CalibratedAt(k, term) ==
    IF Len(term.factors) = 1
    THEN CalibratedBy(term, SolvedFor(term, RoughnessOf(term),
                                      TargetOf(Cardinality(PenalizedUpTo(k)))))
    ELSE BlockOf(P, term.slice) = zero_matrix(term.slice[2] - term.slice[1])

\* C6 (as amended): when the penalty matrix of a parameter is built, the block
\* of P at the slice of every listed smooth term that consists of one spline
\* factor is the term's roughness matrix times the lambda that df2lambda
\* solves for the term's df target (the n-th entry of a list of targets for
\* the n-th such term); the block of a listed term with more than one factor
\* (an interaction with a spline) is left zero.
C6_CalibratedBlocks ==
    pc = "orthogonalize" =>
        \A k \in 1..Len(spline_info.list_of_spline_slices) :
            CalibratedAt(k, TermAt(spline_info.list_of_spline_slices[k]))

\* C6's case: two smooth terms with targets of their own, the second one with
\* a lambda above 0 that differs from the first one's
C6_Witness ==
    /\ pc = "orthogonalize"
    /\ Len(spline_info.list_of_spline_slices) = 2
    /\ dfs.is_list
    /\ BlockOf(P, spline_info.list_of_spline_slices[1])
          # BlockOf(P, spline_info.list_of_spline_slices[2])
    /\ BlockOf(P, spline_info.list_of_spline_slices[2]) # zero_matrix(3)
    /\ BlockOf(P, spline_info.list_of_spline_slices[1]) # zero_matrix(3)

SolvedBlockAt(k, term, solved) ==
    solved.raised = NoExc =>
        BlockOf(P, term.slice) = Times(RoughnessOf(term), solved.lam)

\* C6 (as written): the block of P at the slice of every smooth term listed in
\* list_of_spline_slices is the term's roughness matrix times the lambda that
\* df2lambda solves for the term's df target.
C6_EveryListedTermCalibrated ==
    pc = "orthogonalize" =>
        \A k \in 1..Len(spline_info.list_of_spline_slices) :
            SolvedBlockAt(k, TermAt(spline_info.list_of_spline_slices[k]),
                          SolvedFor(TermAt(spline_info.list_of_spline_slices[k]),
                                    RoughnessOf(TermAt(spline_info.list_of_spline_slices[k])),
                                    TargetOf(IF dfs.is_list THEN k ELSE 1)))

\* C10: a degrees-of-freedom warning issued while one parameter is compiled
\* does not keep parse_formulas from compiling the other parameters and
\* returning: no call ends with the warning as its exception.
C10_WarningDoesNotBlock ==
    warnings_filter = "error" => ~(pc = "raised" /\ exc = "UserWarning")

\* the listed smooth terms that consist of one spline factor
PenalizedTerms == PenalizedUpTo(Len(spline_info.list_of_spline_slices))

PastPenalty == pc \in {"orthogonalize", "assemble", "unstructured"}

\* C11 (as amended): when degrees_of_freedom of a parameter is a list, its
\* entries are consumed one per listed smooth term that consists of a single
\* spline factor, in term order (the n-th such term is calibrated with the
\* n-th entry); the penalty step of the parameter is passed only if the list
\* has an entry for each of these terms, and an IndexError ends the call only
\* when the list has fewer entries than there are such terms.  A listed smooth
\* term with more than one factor consumes no entry.
C11_ListConsumedPerPenalizedTerm ==
    /\ [](PastPenalty /\ dfs.is_list =>
            /\ Cardinality(PenalizedTerms) <= Len(dfs.v)
            /\ pc = "orthogonalize" =>
                  \A k \in PenalizedTerms :
                      CalibratedBy(TermAt(spline_info.list_of_spline_slices[k]),
                                   SolvedFor(TermAt(spline_info.list_of_spline_slices[k]),
                                             RoughnessOf(TermAt(spline_info.list_of_spline_slices[k])),
                                             TargetOf(Cardinality(PenalizedUpTo(k))))))
    /\ [][pc = "penalty" /\ pc' = "raised" /\ exc' = "IndexError" =>
            /\ dfs.is_list
            /\ Len(dfs.v) < Cardinality(PenalizedTerms)]_vars

\* C11's case: a list of one entry for two splines; the first spline took the
\* entry and the second one found the list exhausted
C11_Witness ==
    /\ pc = "raised"
    /\ exc = "IndexError"
    /\ dfs.is_list
    /\ Len(dfs.v) = 1
    /\ unstructured_terms = <<>>
    /\ Cardinality(PenalizedTerms) = 2

\* C11 (as written): with a list, the penalty step is passed only if the list
\* has an entry for every term listed in list_of_spline_slices.
C11_ShortListAlwaysFails ==
    (PastPenalty /\ dfs.is_list) =>
        Len(spline_info.list_of_spline_slices) <= Len(dfs.v)

\* the columns of a slice of the structured matrix
ColumnsAt(slice) == SubSeq(structured_matrix.columns, slice[1] + 1, slice[2])

\* every column of a is orthogonal to every column of b (|a.b| < 0.01)
OrthogonalColumns(a, b) ==
    \A i \in 1..Len(a) : \A j \in 1..Len(b) :
        RLt(RAbs(Dot(a[i], b[j])), Frac(1, 100))

\* the non-smooth terms that are named Intercept
InterceptTerms ==
    {j \in 1..Len(non_spline_info.list_of_term_names) :
        non_spline_info.list_of_term_names[j] = intercept_name}

\* C12: after _orthogonalize_spline_wrt_non_splines every column of every
\* listed smooth term is orthogonal (inner product below 0.01 in magnitude)
\* to every column of each non-smooth term whose input features are a subset
\* of the smooth term's input features, and so to the intercept column of a
\* formula that has one.
C12_SplinesOrthogonalToNonSplines ==
    pc = "assemble" =>
        \A i \in 1..Len(spline_info.list_of_spline_slices) :
            /\ \A j \in 1..Len(non_spline_info.list_of_non_spline_slices) :
                  non_spline_info.list_of_non_spline_input_features[j]
                        \subseteq spline_info.list_of_spline_input_features[i]
                    => OrthogonalColumns(ColumnsAt(spline_info.list_of_spline_slices[i]),
                                         ColumnsAt(non_spline_info.list_of_non_spline_slices[j]))
            /\ \A j \in InterceptTerms :
                  OrthogonalColumns(ColumnsAt(spline_info.list_of_spline_slices[i]),
                                    ColumnsAt(non_spline_info.list_of_non_spline_slices[j]))

\* C12's case: a smooth term beside an intercept and a linear term of the same
\* feature, with a column that the projection left different from zero
C12_Witness ==
    /\ pc = "assemble"
    /\ Len(spline_info.list_of_spline_slices) = 1
    /\ InterceptTerms # {}
    /\ \E j \in 1..Len(non_spline_info.list_of_non_spline_slices) :
          /\ j \notin InterceptTerms
          /\ non_spline_info.list_of_non_spline_input_features[j]
                \subseteq spline_info.list_of_spline_input_features[1]
    /\ \E c \in 1..Len(ColumnsAt(spline_info.list_of_spline_slices[1])) :
          \E r \in 1..NumRows :
              ColumnsAt(spline_info.list_of_spline_slices[1])[c][r] # Zero

\* the terms of the structured matrix that are smooth, or that are not, in
\* the order of the matrix
TermsThat(smooth) ==
    SelectSeq(structured_matrix.terms,
              LAMBDA t : Contains(t.name, spline_name) = smooth)

NamesOf(terms) == [i \in 1..Len(terms) |-> terms[i].name]
SlicesOf(terms) == [i \in 1..Len(terms) |-> terms[i].slice]

\* the listed terms, smooth or not, whose slice holds column k
ListedAt(k) ==
    {<<"spline", i>> : i \in {i \in 1..Len(spline_info.list_of_spline_slices) :
        /\ spline_info.list_of_spline_slices[i][1] < k
        /\ k <= spline_info.list_of_spline_slices[i][2]}}
    \cup
    {<<"non_spline", i>> : i \in {i \in 1..Len(non_spline_info.list_of_non_spline_slices) :
        /\ non_spline_info.list_of_non_spline_slices[i][1] < k
        /\ k <= non_spline_info.list_of_non_spline_slices[i][2]}}

\* C15: _get_info_from_design_matrix lists the terms whose name contains
\* 'spline', with their slices, in spline_info and all other terms in
\* non_spline_info, each term once and in the order of the matrix, so that
\* every column of the matrix is in the slice of exactly one listed term.
C15_TermsPartitioned ==
    pc = "penalty" =>
        /\ spline_info.list_of_term_names = NamesOf(TermsThat(TRUE))
        /\ spline_info.list_of_spline_slices = SlicesOf(TermsThat(TRUE))
        /\ non_spline_info.list_of_term_names = NamesOf(TermsThat(FALSE))
        /\ non_spline_info.list_of_non_spline_slices = SlicesOf(TermsThat(FALSE))
        /\ Len(spline_info.list_of_spline_input_features)
              = Len(spline_info.list_of_spline_slices)
        /\ Len(non_spline_info.list_of_non_spline_input_features)
              = Len(non_spline_info.list_of_non_spline_slices)
        /\ \A k \in 1..Len(structured_matrix.columns) : Cardinality(ListedAt(k)) = 1

\* C15's case: a matrix with an intercept, a linear term and a smooth term of
\* several columns
C15_Witness ==
    /\ pc = "penalty"
    /\ Len(spline_info.list_of_spline_slices) = 1
    /\ Len(non_spline_info.list_of_non_spline_slices) = 2
    /\ spline_info.list_of_spline_slices[1] = <<2, 5>>
    /\ Len(structured_matrix.columns) = 5

\* the call of df2lambda has returned a pair
HasReturnedPair == df_pc \in {"returned", "checked"} /\ df_result.raised = NoExc

\* the pair a call returned is in range
InRange(r, rank) ==
    /\ RLe(Zero, r.lam)
    /\ RLt(Zero, r.df)
    /\ RLe(r.df, Num(rank))

\* C16 (as amended): every pair (df, lambda) that df2lambda returns when it is
\* called with a design matrix of rank 1 or more, and without lam or with
\* lam >= 0, satisfies lambda >= 0 and 0 < df <= rank of the design matrix.
C16_ReturnedPairInRange ==
    (/\ HasReturnedPair
     /\ df_args.dm.rank >= 1
     /\ (df_args.lam = None \/ RLe(Zero, df_args.lam)))
        => /\ InRange(df_result, df_args.dm.rank)
           /\ (df_pc = "checked" /\ df_back.raised = NoExc)
                 => InRange(df_back, df_args.dm.rank)

\* C16's case: a call with a lambda above 0 that returned a df strictly
\* between 0 and the rank, and a call that solved for lambda
C16_Witness ==
    /\ df_pc = "checked"
    /\ df_args.lam = None
    /\ RLt(Zero, df_result.lam)
    /\ df_back.raised = NoExc
    /\ RLt(df_back.df, Num(df_args.dm.rank))

\* C16 (as written): every pair that df2lambda returns, on any inputs, is in range.
C16_EveryReturnedPairInRange ==
    HasReturnedPair => InRange(df_result, df_args.dm.rank)

(***************************************************************************)
(* Claims about the Spline object                                          *)
(***************************************************************************)

\* the attributes of the object before the i-th call
FitBefore(i) ==
    IF i = 1 THEN [s |-> NoBasis, penalty_matrices |-> None]
    ELSE [s |-> sp_log[i - 1].s, penalty_matrices |-> sp_log[i - 1].penalty_matrices]

FitAfter(i) == [s |-> sp_log[i].s, penalty_matrices |-> sp_log[i].penalty_matrices]

\* no call of memorize_chunk between the j-th and the i-th call
NoFitBetween(j, i) ==
    \A k \in (j + 1)..(i - 1) : sp_log[k].op = "transform"

\* C13: a call of Spline.transform leaves the attributes s and
\* penalty_matrices as they were (the basis is not refitted), and after one
\* fit all calls of transform with the same column return the same matrix.
C13_TransformKeepsFit ==
    \A i \in 1..Len(sp_log) :
        sp_log[i].op = "transform" =>
            /\ FitAfter(i) = FitBefore(i)
            /\ \A j \in 1..(i - 1) :
                  /\ sp_log[j].op = "transform"
                  /\ sp_log[j].x = sp_log[i].x
                  /\ NoFitBetween(j, i)
                  => sp_log[j].out = sp_log[i].out

\* C13's case: one fit, then two calls of transform with the same column,
\* one not being the column of the fit
C13_Witness ==
    /\ Len(sp_log) = 3
    /\ sp_log[1].op = "memorize_chunk"
    /\ sp_log[1].raised = NoExc
    /\ sp_log[2].op = "transform"
    /\ sp_log[3].op = "transform"
    /\ sp_log[2].x = sp_log[3].x
    /\ sp_log[2].x # sp_log[1].x
    /\ sp_log[3].out # <<>>

\* C14: memorize_chunk with a basis tag other than 'bs' and 'cc' fails with
\* the AssertionError of line 112 ("Spline basis not defined!") and leaves
\* the object as it was: without a newly fitted basis or penalty matrix.
C14_UnknownBasisRejected ==
    \A i \in 1..Len(sp_log) :
        /\ sp_log[i].op = "memorize_chunk"
        /\ sp_log[i].bs \notin {<<"b", "s">>, <<"c", "c">>}
        => /\ sp_log[i].raised = "AssertionError"
           /\ FitAfter(i) = FitBefore(i)

\* C14's case: a fitted object on which memorize_chunk is then called with
\* the tag 'tp', and a fresh object on which it is
C14_Witness ==
    /\ Len(sp_log) = 3
    /\ sp_log[1].bs = <<"t", "p">>
    /\ sp_log[1].raised = "AssertionError"
    /\ sp_log[1].s = NoBasis
    /\ sp_log[2].raised = NoExc
    /\ sp_log[2].op = "memorize_chunk"
    /\ sp_log[3].op = "memorize_chunk"
    /\ sp_log[3].bs = <<"t", "p">>
    /\ sp_log[3].raised = "AssertionError"
    /\ sp_s = sp_log[2].s

(***************************************************************************)
(* Claims about make_matrix_positive_semi_definite and dfFun               *)
(***************************************************************************)

\* the check of lines 138-141 on the eigenvalues of a matrix
PassesCheck(eigenvalues) ==
    /\ MinReal(eigenvalues, 1)[1] > 0
    /\ (MinReal(eigenvalues, 1)[2] \div MinReal(eigenvalues, 1)[1]) < inv_psd_threshold

PsdEnded == psd_pc \in {"returned", "raised"}

\* C17: make_matrix_positive_semi_definite returns, for every symmetric
\* matrix, a matrix that is positive-semi-definite within the tolerance (for
\* a matrix whose smallest eigenvalue is negative beyond the tolerance, after
\* shrinking it toward the identity), and returns a matrix that already
\* passes the check unchanged.
C17_RepairReturnsPsd ==
    PsdEnded =>
        /\ psd_pc = "returned"
        /\ PassesCheck(psd_result)
        /\ PassesCheck(psd_A) => psd_result = psd_A

\* C18: every call of make_matrix_positive_semi_definite ends, by returning a
\* matrix or by an error, after a bounded number of repair steps (at most one).
C18_RepairEnds ==
    /\ [](psd_steps <= 1)
    /\ (psd_pc = "check") ~> PsdEnded

\* C18's case: a matrix that needed a repair, and the call has ended after
\* one repair step
C18_Witness ==
    /\ psd_pc = "raised"
    /\ psd_steps = 1
    /\ Len(psd_A) = 2
    /\ RLt(MinReal(psd_A, 1), Zero)

RECURSIVE SumHatSquared(_, _, _)
\* the sum over i of (1 / (1 + lam * d_i)) squared
SumHatSquared(lam, d, i) ==
    IF i > Len(d) THEN Zero
    ELSE RAdd(RMul(RDiv(One, RAdd(One, RMul(lam, Num(d[i])))),
                   RDiv(One, RAdd(One, RMul(lam, Num(d[i]))))),
              SumHatSquared(lam, d, i + 1))

\* a call of df2lambda that reaches dfFun with the lambda it was given
\* (lines 201-203), and has ended
DfFunOfGivenLambda ==
    /\ df_pc \in {"returned", "raised", "checked"}
    /\ df_args.df = None
    /\ df_args.lam # None
    /\ RLt(Zero, df_args.lam)
    /\ make_matrix_positive_semi_definite(df_args.dm.min_eig, 0).raised = NoExc

\* C19: dfFun selects the functional by its flag: with hat1 true it gives the
\* sum over i of 1/(1+lam*d_i), with hat1 false 2 times that sum minus the
\* sum over i of (1/(1+lam*d_i))^2.
C19_DfFunSelectsByFlag ==
    DfFunOfGivenLambda =>
        /\ df_result.raised = NoExc
        /\ df_result.df =
              IF df_args.hat1 THEN SumHat(df_args.lam, df_args.dm.d, 1)
              ELSE RSub(RMul(Num(2), SumHat(df_args.lam, df_args.dm.d, 1)),
                        SumHatSquared(df_args.lam, df_args.dm.d, 1))

(***************************************************************************)
(* Claims about the order of the projections                               *)
(***************************************************************************)

OrthSlice(i) == orth_info[1].list_of_spline_slices[i]

\* column k is in the slice of a smooth term whose projection was written
WrittenColumn(k) ==
    \E i \in 1..Len(orth_local) :
        /\ orth_local[i].at = "done"
        /\ OrthSlice(i)[1] < k /\ k <= OrthSlice(i)[2]

\* where the projections stand, against the matrix they started from and the
\* matrix the loop of lines 415-428 makes of it in term order
OrderPlaysNoPart(original, in_term_order) ==
    /\ \A i \in 1..Len(orth_local) :
          orth_local[i].at = "read" =>
              /\ orth_local[i].X = SubSeq(original, OrthSlice(i)[1] + 1, OrthSlice(i)[2])
              /\ orth_local[i].constraints
                    = constraints_of(original, orth_info[2],
                                     orth_info[1].list_of_spline_input_features[i], 1)
    /\ \A k \in 1..Len(orth_matrix) :
          orth_matrix[k] = IF WrittenColumn(k) THEN in_term_order[k] ELSE original[k]

\* C20: in whatever order, and however interleaved, the smooth terms are
\* processed, each projection reads its own columns and non-smooth columns
\* as they were at the start and writes its own columns only, so the matrix
\* at the end is the one the loop produces in term order.
C20_OrderPlaysNoPart ==
    unit = "_orthogonalize_spline_wrt_non_splines" =>
        \A dm \in {dmatrix(orth_formula)} :
            \A in_term_order \in {_orthogonalize_spline_wrt_non_splines(
                                      dm, orth_info[1], orth_info[2])} :
                OrderPlaysNoPart(dm.columns, in_term_order)

\* C20's case: three smooth terms; the third was read first and written
\* while the first was read and not yet written, and its columns changed
C20_Witness ==
    /\ unit = "_orthogonalize_spline_wrt_non_splines"
    /\ Len(orth_local) = 3
    /\ orth_local[1].at = "read"
    /\ orth_local[2].at = "todo"
    /\ orth_local[3].at = "done"
    /\ orth_local[3].X # SubSeq(orth_matrix, OrthSlice(3)[1] + 1, OrthSlice(3)[2])

(***************************************************************************)
(* Claims about the order of penalty assembly and orthogonalization        *)
(***************************************************************************)

\* the columns of the penalized terms are those of the matrix as built
PenalizedColumnsAsBuilt(built) ==
    \A k \in PenalizedTerms :
        ColumnsAt(spline_info.list_of_spline_slices[k])
            = SubSeq(built, spline_info.list_of_spline_slices[k][1] + 1,
                     spline_info.list_of_spline_slices[k][2])

\* the penalty matrix read from the matrix as it is now is the one stored
SamePenalty(now) == now.raised = NoExc /\ now.P = P

\* C21 (as amended): the penalty matrix of a parameter depends on the columns
\* the Penalty Assembler reads.  It is computed from the columns as dmatrix
\* built them; read after the Orthogonalizer has overwritten the smooth
\* terms, the same P results exactly when the columns of every penalized
\* term were left unchanged, and otherwise the computation gives another
\* result or fails.
C21_PenaltyDependsOnColumnsRead ==
    pc = "assemble" =>
        \A built \in {dmatrix(structured_part)} :
            /\ SamePenalty(P_loop(built, dfs, numerics, 1, 0,
                                  zero_matrix(Len(built.columns))))
            /\ SamePenalty(_get_P_from_design_matrix(structured_matrix, dfs, numerics))
                  <=> PenalizedColumnsAsBuilt(built.columns)

\* C21's case: a penalized term whose columns the Orthogonalizer changed,
\* with a block of P that is not zero
C21_Witness ==
    /\ pc = "assemble"
    /\ PenalizedTerms # {}
    /\ ~PenalizedColumnsAsBuilt(dmatrix(structured_part).columns)
    /\ \E k \in PenalizedTerms :
          BlockOf(P, spline_info.list_of_spline_slices[k])
              # zero_matrix(spline_info.list_of_spline_slices[k][2]
                              - spline_info.list_of_spline_slices[k][1])

\* C21 (as written): the penalty matrix is the same whether the columns are
\* read before or after the Orthogonalizer has overwritten them.
C21_PenaltySameAfterOrthogonalization ==
    pc = "assemble" =>
        SamePenalty(_get_P_from_design_matrix(structured_matrix, dfs, numerics))

(***************************************************************************)
(* Claims about interactions with a spline                                 *)
(***************************************************************************)

\* the k-th listed smooth term is an interaction
IsInteraction(k) == Len(TermAt(spline_info.list_of_spline_slices[k]).factors) > 1

\* the features of the data that the factors of a term name
FeaturesOfFactors(term) ==
    UNION {_get_input_features_for_functional_expression(term.factors[f].name,
                                                         data_columns) :
              f \in 1..Len(term.factors)}

\* C22: an interaction of a spline with another factor is listed as a smooth
\* term with its name, its slice and the union of the features of all its
\* factors, but its block of P stays zero and it consumes no entry of a list
\* of degrees of freedom: the smooth terms of one spline factor, and only
\* they, are penalised, the n-th of them with the n-th entry.
C22_InteractionListedNotPenalized ==
    pc = "orthogonalize" =>
        \A k \in 1..Len(spline_info.list_of_spline_slices) :
            /\ IsInteraction(k) =>
                  /\ spline_info.list_of_term_names[k]
                        = TermAt(spline_info.list_of_spline_slices[k]).name
                  /\ spline_info.list_of_spline_input_features[k]
                        = FeaturesOfFactors(TermAt(spline_info.list_of_spline_slices[k]))
                  /\ k \notin PenalizedTerms
            /\ CalibratedAt(k, TermAt(spline_info.list_of_spline_slices[k]))
            /\ dfs.is_list => Cardinality(PenalizedTerms) <= Len(dfs.v)

\* C22's case: two splines and an interaction of a spline with x2, with a
\* list of two entries: the splines have blocks that are not zero, the
\* interaction is listed with the features x1 and x2 and has a zero block
C22_Witness ==
    /\ pc = "orthogonalize"
    /\ dfs.is_list
    /\ Len(dfs.v) = 2
    /\ Len(spline_info.list_of_spline_slices) = 3
    /\ IsInteraction(3)
    /\ spline_info.list_of_spline_input_features[3] = {x1, x2}
    /\ BlockOf(P, spline_info.list_of_spline_slices[3]) = zero_matrix(2)
    /\ BlockOf(P, spline_info.list_of_spline_slices[1]) # zero_matrix(3)
    /\ BlockOf(P, spline_info.list_of_spline_slices[2]) # zero_matrix(3)

(***************************************************************************)
(* Claims about what the orthogonalization leaves alone                    *)
(***************************************************************************)

\* the columns of a slice are those of the matrix as built
SliceAsBuilt(built, slice) ==
    ColumnsAt(slice) = SubSeq(built, slice[1] + 1, slice[2])

\* no non-smooth term has its features among those of the k-th smooth term
Unconstrained(k) ==
    \A j \in 1..Len(non_spline_info.list_of_non_spline_slices) :
        ~(non_spline_info.list_of_non_spline_input_features[j]
              \subseteq spline_info.list_of_spline_input_features[k])

UnchangedOutsideProjections(built) ==
    /\ Len(structured_matrix.columns) = Len(built)
    /\ \A j \in 1..Len(non_spline_info.list_of_non_spline_slices) :
          SliceAsBuilt(built, non_spline_info.list_of_non_spline_slices[j])
    /\ \A k \in 1..Len(spline_info.list_of_spline_slices) :
          Unconstrained(k) => SliceAsBuilt(built, spline_info.list_of_spline_slices[k])

\* C23: _orthogonalize_spline_wrt_non_splines leaves every column of a
\* non-smooth term as it was, and leaves a smooth term as it was when no
\* non-smooth term has a feature set contained in the smooth term's.
C23_OnlyProjectedColumnsChange ==
    pc = "assemble" =>
        \A built \in {dmatrix(structured_part).columns} :
            UnchangedOutsideProjections(built)

\* C23's case: a smooth term beside a non-smooth term with another feature
\* (spline(x1):x2 and x3), and a formula of a smooth term alone
C23_Witness ==
    /\ pc = "assemble"
    /\ Len(spline_info.list_of_spline_slices) = 1
    /\ Len(non_spline_info.list_of_non_spline_slices) = 1
    /\ Unconstrained(1)
    /\ \E c \in 1..Len(ColumnsAt(spline_info.list_of_spline_slices[1])) :
          Dot(ColumnsAt(spline_info.list_of_spline_slices[1])[c],
              ColumnsAt(non_spline_info.list_of_non_spline_slices[1])[1]) # Zero


(***************************************************************************)
(* Claims about the parameters of one call of parse_formulas               *)
(***************************************************************************)

\* the body of the loop of lines 473-540 on the inputs of parameter p alone
\* raises nothing
CompilesAlone(p) ==
    /\ p \in DOMAIN degrees_of_freedom
    /\ \A split \in {_split_formula(FormulaOf(p), net_names)} :
       \A dm \in {dmatrix(null_model(split.structured_part))} :
           /\ dm.raised = NoExc
           /\ _get_P_from_design_matrix([columns |-> dm.columns, terms |-> dm.terms],
                                        degrees_of_freedom[p], numerics).raised = NoExc
           /\ unstructured_loop(split.unstructured_terms, 1, <<>>,
                                [deep_models_dict |-> <<>>,
                                 deep_shapes |-> <<>>]).raised = NoExc

\* the entries of parameter p are the ones its own formula and its own
\* degrees-of-freedom entry give
AsCompiledAlone(p) ==
    \A dm \in {dmatrix(StructuredFormula(p))} :
    \A pen \in {_get_P_from_design_matrix([columns |-> dm.columns, terms |-> dm.terms],
                                          degrees_of_freedom[p], numerics)} :
        /\ p \in DOMAIN meta_datadict
        /\ p \in DOMAIN dm_info_dict
        /\ structured_key \in DOMAIN meta_datadict[p]
        /\ NoNetNamedStructured(formula_parts_of(FormulaOf(p))) =>
              meta_datadict[p][structured_key] = Orthogonalized(dm)
        /\ parsed_formula_contents[p].struct_shapes = Len(dm.columns)
        /\ parsed_formula_contents[p].P = pen.P
        /\ dm_info_dict[p] = _get_info_from_design_matrix(dm, data_columns)[1]

\* the call is over, by a return or by an exception
CallEnded == pc \in {"done", "raised"}

\* C24: the compilation of every parameter is independent of the other
\* parameters of the call: a call that ends with nothing worse than a
\* degrees-of-freedom warning returns, for every parameter whose own formula
\* and degrees-of-freedom entry compile, the structured matrix, P and metadata
\* that these two inputs give, whatever the other parameters have.
C24_ParametersIndependent ==
    (CallEnded /\ exc \in {NoExc, "UserWarning"}) =>
        \A p \in FamilyParams :
            CompilesAlone(p) => HasReturned /\ AsCompiledAlone(p)


\* the running parameter has no entry in degrees_of_freedom
EntryMissing ==
    /\ pc = "loop"
    /\ param_index <= Len(new_formulas)
    /\ param \notin DOMAIN degrees_of_freedom

\* the loop body of a parameter is past the lookup of line 477
PastLookup ==
    pc \in {"split", "null_model", "dmatrix", "penalty", "orthogonalize", "assemble",
            "unstructured"}

\* C25: degrees_of_freedom[param] is looked up for every parameter of the
\* family before the parameter's matrix is built: the loop body of a parameter
\* goes on only with an entry, a parameter without entry ends the call with
\* KeyError before a matrix is built for it, whatever its formula is (also
\* without smooth term, also defaulted to '~0'), and no call returns unless
\* every parameter of the family has an entry.
C25_EntryLookedUpFirst ==
    /\ [](/\ PastLookup => param \in DOMAIN degrees_of_freedom
          /\ HasReturned => FamilyParams \subseteq DOMAIN degrees_of_freedom)
    /\ [][EntryMissing =>
            /\ pc' = "raised"
            /\ exc' = "KeyError"
            /\ structured_matrix' = structured_matrix
            /\ dm_info_dict' = dm_info_dict]_vars

\* C25's case: loc was compiled, scale has neither a formula nor an entry, and
\* the call ended with KeyError
C25_Witness ==
    /\ pc = "raised"
    /\ exc = "KeyError"
    /\ param = "scale"
    /\ "scale" \notin DOMAIN formulas
    /\ "scale" \notin DOMAIN degrees_of_freedom
    /\ "loc" \in DOMAIN dm_info_dict
    /\ "scale" \notin DOMAIN dm_info_dict


(***************************************************************************)
(* Claims about a call of df2lambda with both df and lam                   *)
(***************************************************************************)

\* the call was given a target df below the rank and a lam other than 0
BothGiven ==
    /\ df_args.df # None
    /\ RLt(df_args.df, Num(df_args.dm.rank))
    /\ df_args.lam # None
    /\ df_args.lam # Zero

\* the targets below the rank of the design matrix of the call, and no target
TargetsBelowRank ==
    {None} \cup {t \in OptionalReals(MaxCols + 1) \ {None} :
                    RLt(t, Num(df_args.dm.rank))}

\* C26: called with a target df below the rank and a lam other than 0,
\* df2lambda lets lam take precedence: no root search is run (the call ends
\* without a warning and without the ValueError of the search), a pair that
\* is returned has the given lam unchanged and the value of the df functional
\* at this lam as df, and the outcome is the same for every target below the
\* rank and for no target at all.
C26_GivenLambdaTakesPrecedence ==
    (Df2LambdaEnded /\ BothGiven) =>
        /\ df_result.raised \in {NoExc, "TypeError"}
        /\ (/\ df_args.hat1
            /\ make_matrix_positive_semi_definite(df_args.dm.min_eig, 0).raised = NoExc)
              => df_result.raised = NoExc
        /\ df_result.raised = NoExc =>
              /\ df_result.lam = df_args.lam
              /\ df_result.df = SumHat(df_args.lam, df_args.dm.d, 1)
        /\ \A target \in TargetsBelowRank :
              df2lambda(df_args.dm, <<>>, target, df_args.lam, df_args.hat1,
                        df_args.lam_max) = df_result

\* C26's case: a call with a target and a lam above 0 that returned the lam
\* with another df than the target, where a search for the target would have
\* given another lam
C26_Witness ==
    /\ df_pc = "returned"
    /\ BothGiven
    /\ df_result.lam = df_args.lam
    /\ df_result.df # df_args.df
    /\ \E r \in {lambda_from_df(df_args.dm.d, df_args.df, df_args.hat1,
                                df_args.lam_max, df_args.dm.round_up)} :
           r.raised = NoExc /\ r.lam # df_args.lam


(***************************************************************************)
(* Claims about the key 'structured' of meta_datadict                      *)
(***************************************************************************)

\* C27: when parse_formulas has returned, meta_datadict[param]['structured']
\* is, for every parameter, the structured matrix of the parameter, with
\* struct_shapes columns, whatever the external models are named and however
\* often one occurs; no entry written for an external-model term replaces it.
C27_StructuredKeyKept ==
    HasReturned =>
        \A p \in FamilyParams :
            /\ Len(meta_datadict[p][structured_key])
                  = parsed_formula_contents[p].struct_shapes
            /\ meta_datadict[p][structured_key]
                  = Orthogonalized(dmatrix(StructuredFormula(p)))

====
